---- MODULE Spec2Model ----
(***************************************************************************)
(* A model of the serd Turtle / N-Triples reader (reader.c) and of the     *)
(* URI functions (uri.c).                                                  *)
(*                                                                         *)
(* The reader is a blocking recursive-descent parser: one call of          *)
(* serd_reader_read_string runs to completion on the caller's thread.      *)
(* Each C function is an operator of the same name that takes the reader   *)
(* (a record of the fields of struct SerdReaderImpl, plus the sink's       *)
(* observations) and returns the reader it leaves behind together with     *)
(* its return value.  Bytes are numbers, as uint8_t is.                    *)
(***************************************************************************)
EXTENDS Integers, Sequences, FiniteSets, TLC

VARIABLES reader, result, uri_call

vars == <<reader, result, uri_call>>

----------------------------------------------------------------------------
(* Bytes.                                                                  *)

AsciiPrintable ==
    <<" ", "!", "\"", "#", "$", "%", "&", "'", "(", ")", "*", "+", ",", "-",
    ".", "/", "0", "1", "2", "3", "4", "5", "6", "7", "8", "9", ":", ";",
    "<", "=", ">", "?", "@", "A", "B", "C", "D", "E", "F", "G", "H", "I",
    "J", "K", "L", "M", "N", "O", "P", "Q", "R", "S", "T", "U", "V", "W",
    "X", "Y", "Z", "[", "\\", "]", "^", "_", "(grave)", "a", "b", "c", "d", "e",
    "f", "g", "h", "i", "j", "k", "l", "m", "n", "o", "p", "q", "r", "s",
    "t", "u", "v", "w", "x", "y", "z", "{", "|", "}", "~">>

Ord(ch) == 31 + (CHOOSE i \in 1..Len(AsciiPrintable) : AsciiPrintable[i] = ch)

Bytes(s) == [i \in 1..Len(s) |-> Ord(s[i])]

RECURSIVE Flatten(_)
Flatten(ss) == IF ss = <<>> THEN <<>> ELSE Head(ss) \o Flatten(Tail(ss))

NUL == 0
TAB == 9
LF == 10
CR == 13
SP == 32

\* The bytes the grammar names.
QUOTE == 34
HASH == 35
LPAREN == 40
RPAREN == 41
PLUS == 43
COMMA == 44
MINUS == 45
DOT == 46
SLASH == 47
DIGIT_0 == 48
DIGIT_9 == 57
COLON == 58
SEMICOLON == 59
LESS == 60
GREATER == 62
QUESTION == 63
AT == 64
UPPER_A == 65
UPPER_E == 69
UPPER_U == 85
UPPER_Z == 90
LBRACKET == 91
BACKSLASH == 92
RBRACKET == 93
CARET == 94
UNDERSCORE == 95
LOWER_A == 97
LOWER_B == 98
LOWER_E == 101
LOWER_N == 110
LOWER_P == 112
LOWER_R == 114
LOWER_T == 116
LOWER_U == 117
LOWER_Z == 122

in_range(c, min, max) == c >= min /\ c <= max

is_alpha(c) == in_range(c, UPPER_A, UPPER_Z) \/ in_range(c, LOWER_A, LOWER_Z)

is_digit(c) == in_range(c, DIGIT_0, DIGIT_9)

NS_XSD == Bytes(
    <<"h", "t", "t", "p", ":", "/", "/", "w", "w", "w", ".", "w", "3", ".",
    "o", "r", "g", "/", "2", "0", "0", "1", "/", "X", "M", "L", "S", "c",
    "h", "e", "m", "a", "#">>)

NS_RDF == Bytes(
    <<"h", "t", "t", "p", ":", "/", "/", "w", "w", "w", ".", "w", "3", ".",
    "o", "r", "g", "/", "1", "9", "9", "9", "/", "0", "2", "/", "2", "2",
    "-", "r", "d", "f", "-", "s", "y", "n", "t", "a", "x", "-", "n", "s",
    "#">>)

----------------------------------------------------------------------------
(* Nodes, the string arena and the read buffer.                            *)

RV(r, v) == [v |-> v, r |-> r]

\* A null const Node* (ReadContext fields, emit_statement arguments).
NULL_NODE == [type |-> "NULL", value |-> 0]

INTERNAL_NODE_NULL == [type |-> "NOTHING", value |-> 0]

make_node(type, value) == [type |-> type, value |-> value]

\* The node handed to a sink when the reference is 0 (SERD_NODE_NULL).
SERD_NODE_NULL == [type |-> "NOTHING", buf |-> <<>>, n_bytes |-> 0, n_chars |-> 0, null |-> TRUE]

SizeofSerdString == 16

SerdStackBottom == 8

\* serd_stack_push: bump the arena by n bytes and return the old top.
serd_stack_push(r, n) == RV([r EXCEPT !.stack_size = @ + n], r.stack_size)

serd_stack_pop(r, n) == [r EXCEPT !.stack_size = @ - n]

\* The page of the stream reader is READ_BUF_LEN bytes long: 4096 in the
\* program, a few bytes here, so that the documents read cross pages.
READ_BUF_LEN == 8

\* The memory read_buf points into is r.buf, and read_buf is its offset
\* r.origin: 0 for a string, one page into the two pages allocated for a
\* stream.  The byte at offset i of read_buf; memory outside the modelled
\* bytes reads as zero, and consuming such a byte is the fault that ends
\* the process.
Mem(r, i) ==
    IF i + r.origin >= 0 /\ i + r.origin < Len(r.buf) THEN r.buf[i + r.origin + 1] ELSE NUL

\* read_buf[i .. i + Len(bytes) - 1] = bytes
Store(r, i, bytes) ==
    [r EXCEPT !.buf = [k \in 1..Len(@) |->
                          IF k - 1 - r.origin >= i /\ k - 1 - r.origin < i + Len(bytes)
                          THEN bytes[k - r.origin - i] ELSE @[k]]]

error(r) == IF r.halt THEN r ELSE [r EXCEPT !.out = Append(@, [k |-> "error"])]

\* fread(reader->read_buf, 1, READ_BUF_LEN, reader->fd): r.fd is what the
\* stream has yet to give.
n_read(r) == IF Len(r.fd) < READ_BUF_LEN THEN Len(r.fd) ELSE READ_BUF_LEN

page(r) ==
    IF n_read(r) = 0
    THEN RV([Store(r, 0, <<NUL>>) EXCEPT !.read_head = 0, !.eof = TRUE], FALSE)
    ELSE RV([Store(r, 0, IF n_read(r) < READ_BUF_LEN THEN r.fd \o <<NUL>> ELSE r.fd)
                EXCEPT !.read_head = 0,
                       !.fd = SubSeq(@, n_read(r) + 1, Len(@))],
            TRUE)

peek_byte(r) == Mem(r, r.read_head)

\* The page fault of peek_string at pre[i]: the bytes peeked so far are
\* copied in front of the new page and the head is put on them.
peek_string_fault(p, i, pre) ==
    IF ~p.v THEN p
    ELSE RV(Store([p.r EXCEPT !.read_head = 0 - i], 0 - i, pre), TRUE)

\* pre[i] for i < n; entries the loop never wrote are left out of pre.
\* at is ptr - read_buf.
RECURSIVE peek_string_loop(_, _, _, _, _), peek_string_paged(_, _, _, _),
          peek_string_next(_, _, _, _, _)
peek_string_loop(r, n, i, pre, at) ==
    IF i = n THEN [r |-> r, v |-> TRUE, pre |-> pre]
    ELSE IF r.from_file /\ r.read_head + i >= READ_BUF_LEN
    THEN peek_string_paged(peek_string_fault(page(r), i, pre), n, i, pre)
    ELSE peek_string_next(r, n, i, pre, at)

peek_string_paged(p, n, i, pre) ==
    IF ~p.v THEN [r |-> p.r, v |-> FALSE, pre |-> pre]
    ELSE peek_string_next(p.r, n, i, pre, 0)

peek_string_next(r, n, i, pre, at) ==
    IF Mem(r, at) = NUL THEN [r |-> r, v |-> FALSE, pre |-> Append(pre, NUL)]
    ELSE peek_string_loop(r, n, i + 1, Append(pre, Mem(r, at)), at + 1)

peek_string(r, n) == peek_string_loop(r, n, 0, <<>>, r.read_head)

\* pre[i] of a peek_string result (0-based); -1 stands for a byte of the
\* caller's array that peek_string did not write.
Pre(p, i) == IF i < Len(p.pre) THEN p.pre[i + 1] ELSE -1

\* ++reader->read_head and the cursor's move over the byte c.
advance(r, c) ==
    [r EXCEPT !.read_head = @ + 1,
              !.cur = IF c = LF THEN [line |-> @.line + 1, col |-> 0]
                      ELSE [line |-> @.line, col |-> @.col + 1]]

\* The end of eat_byte once the byte has matched and the head has moved.
eat_byte_end(p, byte) ==
    IF ~p.v THEN RV(p.r, 0)
    ELSE RV([p.r EXCEPT !.eof = @ \/ peek_byte(p.r) = NUL], byte)

eat_byte(r, byte) ==
    IF r.halt THEN RV(r, 0)
    ELSE IF r.read_head + r.origin >= Len(r.buf) THEN RV([r EXCEPT !.halt = TRUE], 0)
    ELSE IF peek_byte(r) # byte THEN RV(error(advance(r, peek_byte(r))), 0)
    ELSE IF r.from_file /\ r.read_head + 1 = READ_BUF_LEN
    THEN eat_byte_end(page(advance(r, byte)), byte)
    ELSE eat_byte_end(RV(advance(r, byte), TRUE), byte)

RECURSIVE eat_string_loop(_, _, _)
eat_string_loop(r, str, i) ==
    IF i > Len(str) THEN r
    ELSE eat_string_loop(eat_byte(r, str[i]).r, str, i + 1)

eat_string(r, str) == eat_string_loop(r, str, 1)

\* Make a new string from a C string (internal use only).
\* The string written at the memory p that serd_stack_push returned.
new_string(p, c_str) ==
    RV([p.r EXCEPT !.strs = (p.v :> [n_bytes |-> Len(c_str), n_chars |-> Len(c_str),
                                     buf |-> c_str]) @@ @],
       p.v)

push_string(r, c_str) == new_string(serd_stack_push(r, SizeofSerdString + Len(c_str) + 1), c_str)

\* make_node(type, ref) of the reference a function returned in x.v.
node_of(x, type) == RV(x.r, make_node(type, x.v))

push_uri(r, str) == node_of(push_string(r, str), "URI")

Live(r, ref) == ref \in DOMAIN r.strs

\* deref of a reference whose string has been popped yields whatever the
\* arena holds there now; the model shows it as an empty string marked stale.
deref(r, ref) ==
    IF Live(r, ref) THEN r.strs[ref]
    ELSE [n_bytes |-> 0, n_chars |-> 0, buf |-> <<>>]

push_byte(r, ref, c) ==
    IF r.halt \/ ~Live(r, ref) THEN r
    ELSE LET p == serd_stack_push(r, 1)
         IN [p.r EXCEPT !.strs[ref] =
                [n_bytes |-> @.n_bytes + 1,
                 n_chars |-> IF in_range(c, 128, 191) THEN @.n_chars ELSE @.n_chars + 1,
                 buf     |-> Append(@.buf, c)]]

append_string(r, ref, suffix) ==
    LET p == serd_stack_push(r, Len(suffix))
    IN [p.r EXCEPT !.strs[ref] =
           [n_bytes |-> @.n_bytes + Len(suffix),
            n_chars |-> @.n_chars + Len(suffix),
            buf     |-> @.buf \o suffix]]

pop_string(r, ref) ==
    IF ref = 0 THEN r
    ELSE IF ref \in {r.rdf_nil.value, r.rdf_first.value, r.rdf_rest.value} THEN r
    ELSE [serd_stack_pop(r, SizeofSerdString + deref(r, ref).n_bytes + 1)
             EXCEPT !.strs = [x \in (DOMAIN @) \ {ref} |-> @[x]]]

public_node_from_ref(r, type, ref) ==
    IF ref = 0 THEN SERD_NODE_NULL
    ELSE [type |-> type, null |-> FALSE] @@ deref(r, ref)

public_node(r, private) ==
    IF private # NULL_NODE THEN public_node_from_ref(r, private.type, private.value)
    ELSE SERD_NODE_NULL

----------------------------------------------------------------------------
(* Sinks.  Every call of a sink, every diagnostic, every bracket the        *)
(* grammar consumes, every collection it starts on and every blank node     *)
(* identifier it mints is appended to r.out, in the order the reader makes  *)
(* them.  r.sink says which calls the caller's sinks refuse.                *)

SERD_SUCCESS == 0
SERD_FAILURE == 1
SERD_ERR_UNKNOWN == 2
SERD_ERR_BAD_SYNTAX == 3
SERD_ERR_BAD_ARG == 4

SinkKinds == {"stmt", "base", "prefix", "end"}

SinkCalls(out) == Cardinality({i \in 1..Len(out) : out[i].k \in SinkKinds})

\* Whether the caller's sink returns non-zero for the call about to be made:
\* r.sink is the number of the one sink call of this read that is refused
\* (0: none is).
SinkRefuses(r) == SinkCalls(r.out) + 1 = r.sink

emit_statement(r, g, s, p, o, d, l, f) ==
    IF r.halt THEN RV(r, FALSE)
    ELSE IF ~r.ndebug /\ (NULL_NODE \in {s, p, o} \/ s.value = 0 \/ p.value = 0 \/ o.value = 0)
    THEN RV([r EXCEPT !.halt = TRUE,
                      !.out = Append(@, [k |-> "assert", fn |-> "emit_statement"])],
            FALSE)
    ELSE
    LET ev  == [k         |-> "stmt",
                flags     |-> r.flags,
                graph     |-> public_node(r, g),
                subject   |-> public_node(r, s),
                predicate |-> public_node(r, p),
                object    |-> public_node(r, o),
                datatype  |-> public_node(r, d),
                lang      |-> public_node_from_ref(r, "LITERAL", l),
                oflags    |-> f,
                refused   |-> SinkRefuses(r)]
    IN RV([r EXCEPT !.out = Append(@, ev),
                    !.flags = IF "ANON_CONT" \in @ THEN {"ANON_CONT"} ELSE {}],
          ~SinkRefuses(r))

\* Ghost: the grammar consumed byte c as an opening or closing bracket.
Bracket(r, c) == IF r.halt THEN r ELSE [r EXCEPT !.out = Append(@, [k |-> "bracket", c |-> c])]

\* Ghost: read_collection starts on a collection, the read head just past
\* its `(', called with the subject and the predicate of ctx (null nodes
\* when the collection is a subject).
Opened(r, ctx) ==
    IF r.halt THEN r
    ELSE [r EXCEPT !.out = Append(@, [k         |-> "collection",
                                      at        |-> r.read_head,
                                      subject   |-> public_node(r, ctx.subject),
                                      predicate |-> public_node(r, ctx.predicate)])]

----------------------------------------------------------------------------
(* Lexical rules.                                                          *)

\* Call(fn, r, ctx, b) is the call of the function fn of the grammar on the
\* reader r: fn(reader, ctx, b) for the functions that take a ReadContext,
\* and Lex(fn, r) is fn(reader) for those that take none.  The functions are
\* listed, with their arguments, where Call is defined.
RECURSIVE Call(_, _, _, _)

NO_CONTEXT == [graph |-> NULL_NODE, subject |-> NULL_NODE, predicate |-> NULL_NODE]

Lex(fn, r) == Call(fn, r, NO_CONTEXT, FALSE)

RECURSIVE BitOr(_, _)
BitOr(a, b) ==
    IF a = 0 THEN b
    ELSE IF b = 0 THEN a
    ELSE 2 * BitOr(a \div 2, b \div 2) + (IF a % 2 = 1 \/ b % 2 = 1 THEN 1 ELSE 0)

\* [40] hex ::= [#x30-#x39] | [#x41-#x46]
read_hex(r) ==
    LET c == peek_byte(r)
    IN IF in_range(c, 48, 57) \/ in_range(c, 65, 70) THEN eat_byte(r, c)
       ELSE RV(error(r), 0)

RECURSIVE read_hex_loop(_, _, _)
read_hex_loop(r, length, buf) ==
    IF Len(buf) = length THEN RV(r, buf)
    ELSE LET h == read_hex(r) IN read_hex_loop(h.r, length, Append(buf, h.v))

HexDigit(c) == IF c >= 65 THEN c - 55 ELSE c - 48

\* sscanf(buf, "%X", &c): the value of the hex digits before the first NUL;
\* with no digit nothing is stored and c keeps its indeterminate value.
\* Eight digits fit the 32-bit c exactly.  Every value from 0x200000 up is
\* treated alike by the caller (no encoding), so the scan stops counting there.
RECURSIVE ScanHex(_, _)
ScanHex(buf, acc) ==
    IF buf = <<>> \/ Head(buf) = NUL THEN acc
    ELSE LET v == acc * 16 + HexDigit(Head(buf))
         IN ScanHex(Tail(buf), IF v > 2097152 THEN 2097152 ELSE v)

\* A faulty encoder: the first byte of a four-byte sequence is left without
\* the bit that marks it.
Utf8Encode_unmarked(c0, size) ==
    LET b3 == BitOr(128, c0 % 64)
        c1 == IF size >= 4 THEN c0 \div 64 ELSE c0
        b2 == BitOr(128, c1 % 64)
        c2 == IF size >= 3 THEN BitOr(c1 \div 64, 2048) ELSE c1
        b1 == BitOr(128, c2 % 64)
        c3 == IF size >= 2 THEN BitOr(c2 \div 64, 192) ELSE c2
        b0 == c3 % 256
    IN SubSeq(<<b0, b1, b2, b3>>, 1, size)

Utf8Encode(c0, size) ==
    LET b3 == BitOr(128, c0 % 64)
        c1 == IF size >= 4 THEN BitOr(c0 \div 64, 65536) ELSE c0
        b2 == BitOr(128, c1 % 64)
        c2 == IF size >= 3 THEN BitOr(c1 \div 64, 2048) ELSE c1
        b1 == BitOr(128, c2 % 64)
        c3 == IF size >= 2 THEN BitOr(c2 \div 64, 192) ELSE c2
        b0 == c3 % 256
    IN SubSeq(<<b0, b1, b2, b3>>, 1, size)

RECURSIVE push_bytes(_, _, _)
push_bytes(r, dest, bs) ==
    IF bs = <<>> THEN r ELSE push_bytes(push_byte(r, dest, Head(bs)), dest, Tail(bs))

\* Build the output (size bytes, 0 when c has no encoding) and push it.
read_hex_escape_push(r, c, size, dest) ==
    IF size = 0 THEN RV(r, FALSE)
    ELSE RV(push_bytes(r, dest, Utf8Encode(c, size)), TRUE)

read_hex_escape_size(r, c, dest) ==
    read_hex_escape_push(r, c,
                         IF c < 128 THEN 1
                         ELSE IF c < 2048 THEN 2
                         ELSE IF c < 65536 THEN 3
                         ELSE IF c < 2097152 THEN 4
                         ELSE 0,
                         dest)

\* h is the reader and buf after the loop over read_hex; junk is the value c
\* holds when sscanf stores nothing.
read_hex_escape_scan(h, junk, dest) ==
    read_hex_escape_size(h.r, IF h.v[1] = NUL THEN junk ELSE ScanHex(h.v, 0), dest)

read_hex_escape(r, length, dest) ==
    read_hex_escape_scan(read_hex_loop(r, length, <<>>), r.junk, dest)

\* push_byte(reader, dest, e) for the byte e that eat_byte returned.
push_from(e, dest) == push_byte(e.r, dest, e.v)

\* push_byte(reader, dest, eat_byte(reader, c))
push_eaten(r, dest, c) == push_from(eat_byte(r, c), dest)

\* A result that sets no SerdNodeFlags: v is the return value, nf the flags
\* or-ed into *flags.
no_flags(x) == [v |-> x.v, r |-> x.r, nf |-> {}]

or_flags(x, nf) == [x EXCEPT !.nf = @ \cup nf]

\* if (escape) return SERD_SUCCESS; else { error(...); return bad; }
escaped(x, bad) ==
    [v  |-> IF x.v THEN SERD_SUCCESS ELSE bad,
     r  |-> IF x.v THEN x.r ELSE error(x.r),
     nf |-> x.nf]

read_character_escape(r, dest) ==
    LET c == peek_byte(r)
    IN IF c = BACKSLASH THEN RV(push_eaten(r, dest, c), TRUE)
       ELSE IF c = LOWER_U \/ c = UPPER_U
       THEN read_hex_escape(eat_byte(r, c).r, IF c = LOWER_U THEN 4 ELSE 8, dest)
       ELSE RV(r, FALSE)

read_echaracter_escape(r, dest) ==
    LET c == peek_byte(r)
    IN IF c = LOWER_T THEN [r |-> push_byte(eat_byte(r, c).r, dest, TAB), v |-> TRUE, nf |-> {}]
       ELSE IF c = LOWER_N
       THEN [r |-> push_byte(eat_byte(r, c).r, dest, LF), v |-> TRUE, nf |-> {"HAS_NEWLINE"}]
       ELSE IF c = LOWER_R
       THEN [r |-> push_byte(eat_byte(r, c).r, dest, CR), v |-> TRUE, nf |-> {"HAS_NEWLINE"}]
       ELSE no_flags(read_character_escape(r, dest))

read_scharacter_escape(r, dest) ==
    IF peek_byte(r) = QUOTE
    THEN [r |-> push_eaten(r, dest, QUOTE), v |-> TRUE, nf |-> {"HAS_QUOTE"}]
    ELSE read_echaracter_escape(r, dest)

\* The flags of the escape go to a local of read_ucharacter_escape.
read_ucharacter_escape(r, dest) ==
    IF peek_byte(r) = GREATER THEN no_flags(RV(push_eaten(r, dest, GREATER), TRUE))
    ELSE no_flags(read_echaracter_escape(r, dest))

RECURSIVE push_eaten_n(_, _, _)
push_eaten_n(r, dest, n) ==
    IF n = 0 THEN r ELSE push_eaten_n(push_eaten(r, dest, peek_byte(r)), dest, n - 1)

\* [38] character
read_character(r, dest) ==
    LET c == peek_byte(r)
    IN IF c = NUL THEN RV(error(r), SERD_ERR_BAD_SYNTAX)
       ELSE IF c < 32 THEN RV(error(r), SERD_ERR_BAD_SYNTAX)
       ELSE IF c <= 126 THEN RV(push_eaten(r, dest, c), SERD_SUCCESS)
       ELSE LET size == IF in_range(c, 192, 223) THEN 2
                        ELSE IF in_range(c, 224, 239) THEN 3
                        ELSE IF in_range(c, 240, 247) THEN 4
                        ELSE 0
            IN IF size = 0 THEN RV(error(r), SERD_ERR_BAD_SYNTAX)
               ELSE RV(push_eaten_n(r, dest, size), SERD_SUCCESS)

\* read_echaracter_escape(reader, peek_byte(reader), &flags): the escape is
\* read into the string whose reference is the byte after the backslash.
read_echaracter_escape_peeked(r) == read_echaracter_escape(r, peek_byte(r))

\* [39] echaracter
read_echaracter(r, dest) ==
    IF peek_byte(r) = BACKSLASH
    THEN no_flags(escaped(read_echaracter_escape_peeked(eat_byte(r, BACKSLASH).r),
                          SERD_ERR_BAD_SYNTAX))
    ELSE no_flags(read_character(r, dest))

\* [43] lcharacter
read_lcharacter(r, dest) ==
    LET c == peek_byte(r)
    IN IF c = QUOTE
       THEN LET p == peek_string(r, 4)
            IN IF Pre(p, 1) = QUOTE /\ Pre(p, 2) = QUOTE /\ Pre(p, 3) # QUOTE
               THEN [r  |-> eat_byte(eat_byte(eat_byte(p.r, c).r, c).r, c).r,
                     v  |-> SERD_FAILURE, nf |-> {}]
               ELSE [r |-> push_eaten(p.r, dest, c), v |-> SERD_SUCCESS, nf |-> {"HAS_QUOTE"}]
       ELSE IF c = BACKSLASH
       THEN escaped(read_scharacter_escape(eat_byte(r, c).r, dest), SERD_ERR_BAD_SYNTAX)
       ELSE IF c = LF \/ c = CR
       THEN [r |-> push_eaten(r, dest, c), v |-> SERD_SUCCESS, nf |-> {"HAS_NEWLINE"}]
       ELSE IF c = TAB
       THEN [r |-> push_eaten(r, dest, c), v |-> SERD_SUCCESS, nf |-> {}]
       ELSE read_echaracter(r, dest)

\* [42] scharacter
read_scharacter(r, dest) ==
    LET c == peek_byte(r)
    IN IF c = BACKSLASH
       THEN escaped(read_scharacter_escape(eat_byte(r, c).r, dest), SERD_ERR_BAD_SYNTAX)
       ELSE IF c = QUOTE THEN [r |-> r, v |-> SERD_FAILURE, nf |-> {}]
       ELSE no_flags(read_character(r, dest))

\* [41] ucharacter; an illegal escape returns error(), that is 0.
read_ucharacter(r, dest) ==
    LET c == peek_byte(r)
    IN IF c = BACKSLASH
       THEN escaped(read_ucharacter_escape(eat_byte(r, c).r, dest), 0)
       ELSE IF c = GREATER THEN [r |-> r, v |-> SERD_FAILURE, nf |-> {}]
       ELSE no_flags(read_character(r, dest))

\* The stream has ended and page() has said so: the first byte of the page
\* is the zero page() wrote, and what the page holds does not change any
\* more.  A loop that comes to a head it has been at since then takes the
\* same turn for ever.
Ended(r) == r.from_file /\ r.fd = <<>> /\ r.eof /\ Mem(r, 0) = NUL

Again(r, seen) == Ended(r) /\ r.read_head \in seen

Seen(r, seen) == IF Ended(r) THEN seen \cup {r.read_head} ELSE seen

\* Ghost: the call never returns (r.hang); nothing more is done in it.
Hangs(r) == [r EXCEPT !.halt = TRUE, !.hang = TRUE]

\* [10] comment ::= '#' ( [^#xA #xD] )*
RECURSIVE read_comment_loop(_, _)
read_comment_loop(r, seen) ==
    LET c == peek_byte(r)
    IN IF r.halt \/ c = LF \/ c = CR THEN r
       ELSE IF Again(r, seen) THEN Hangs(r)
       ELSE read_comment_loop(eat_byte(r, c).r, Seen(r, seen))

read_comment(r) == read_comment_loop(eat_byte(r, HASH).r, {})

\* [24] ws ::= #x9 | #xA | #xD | #x20 | comment
read_ws(r) ==
    LET c == peek_byte(r)
    IN IF c \in {TAB, LF, CR, SP} THEN RV(eat_byte(r, c).r, TRUE)
       ELSE IF c = HASH THEN RV(read_comment(r), TRUE)
       ELSE RV(r, FALSE)

\* while (read_ws(reader)) {}: w is what the last read_ws returned.
RECURSIVE read_ws_loop(_, _)
read_ws_loop(w, seen) ==
    IF ~w.v \/ w.r.halt THEN w.r
    ELSE IF Again(w.r, seen) THEN Hangs(w.r)
    ELSE read_ws_loop(read_ws(w.r), Seen(w.r, seen))

read_ws_star(r) == read_ws_loop(RV(r, TRUE), {})

\* TRY_RET(read_ws(reader)); read_ws_star(reader); return true
read_ws_plus_rest(w) == RV(read_ws_loop(w, {}), w.v)

read_ws_plus(r) == read_ws_plus_rest(read_ws(r))

\* The status a character loop starts from.
Started(r) == [v |-> SERD_SUCCESS, r |-> r, nf |-> {}]

\* The loop stops on a status other than SERD_SUCCESS, or when the process
\* is gone.
Stopped(x) == [x EXCEPT !.v = IF @ = SERD_SUCCESS THEN SERD_ERR_UNKNOWN ELSE @]

\* while (!(st = read_lcharacter(reader, str, flags))) {}: x is the reader
\* and the status after the last character, with the flags or-ed so far.
RECURSIVE read_lcharacter_loop(_, _)
read_lcharacter_loop(x, str) ==
    IF x.v # SERD_SUCCESS \/ x.r.halt THEN Stopped(x)
    ELSE read_lcharacter_loop(or_flags(read_lcharacter(x.r, str), x.nf), str)

\* The string a quotedString leaves: the reference, or 0 with the string
\* popped when the loop ended in an error.
read_longString_end(l, str) ==
    IF l.v < SERD_ERR_UNKNOWN THEN [r |-> l.r, v |-> str, nf |-> l.nf]
    ELSE [r |-> pop_string(l.r, str), v |-> 0, nf |-> l.nf]

\* [37] longString
read_longString(r) ==
    LET p == push_string(eat_string(r, <<QUOTE, QUOTE, QUOTE>>), <<>>)
    IN read_longString_end(read_lcharacter_loop(Started(p.r), p.v), p.v)

RECURSIVE read_scharacter_loop(_, _)
read_scharacter_loop(x, str) ==
    IF x.v # SERD_SUCCESS \/ x.r.halt THEN Stopped(x)
    ELSE read_scharacter_loop(or_flags(read_scharacter(x.r, str), x.nf), str)

read_string_end(l, str) ==
    IF l.v < SERD_ERR_UNKNOWN THEN [r |-> eat_byte(l.r, QUOTE).r, v |-> str, nf |-> l.nf]
    ELSE [r |-> pop_string(l.r, str), v |-> 0, nf |-> l.nf]

\* [36] string
read_string(r) ==
    LET p == push_string(eat_byte(r, QUOTE).r, <<>>)
    IN read_string_end(read_scharacter_loop(Started(p.r), p.v), p.v)

\* [35] quotedString
read_quotedString(r) ==
    LET p == peek_string(r, 3)
    IN IF Pre(p, 1) = QUOTE /\ Pre(p, 2) = QUOTE THEN read_longString(p.r)
       ELSE read_string(p.r)

RECURSIVE read_ucharacter_loop(_, _)
read_ucharacter_loop(x, str) ==
    IF x.v # SERD_SUCCESS \/ x.r.halt THEN Stopped(x)
    ELSE read_ucharacter_loop(read_ucharacter(x.r, str), str)

read_relativeURI_end(l, str) ==
    IF l.v < SERD_ERR_UNKNOWN THEN RV(l.r, str) ELSE RV(pop_string(l.r, str), 0)

\* [34] relativeURI ::= ucharacter*
read_relativeURI(r) ==
    LET p == push_string(r, <<>>)
    IN read_relativeURI_end(read_ucharacter_loop(Started(p.r), p.v), p.v)

\* [30] nameStartChar
read_nameStartChar(r, required) ==
    LET c == peek_byte(r)
    IN IF c = UNDERSCORE \/ is_alpha(c) THEN eat_byte(r, c)
       ELSE RV(IF required THEN error(r) ELSE r, 0)

\* if (c) return c; switch ((c = peek_byte(reader))) { ... }
read_nameChar_other(s) ==
    IF s.v # 0 THEN s
    ELSE IF peek_byte(s.r) = MINUS \/ peek_byte(s.r) = 183 \/ is_digit(peek_byte(s.r))
    THEN eat_byte(s.r, peek_byte(s.r))
    ELSE RV(s.r, 0)

\* [31] nameChar
read_nameChar(r) == read_nameChar_other(read_nameStartChar(r, FALSE))

\* while ((c = read_nameChar(reader)) != 0) push_byte(reader, str, c);
RECURSIVE read_nameChar_loop(_, _)
read_nameChar_pushed(n, str) ==
    IF n.v = 0 THEN n.r ELSE read_nameChar_loop(push_from(n, str), str)

read_nameChar_loop(r, str) ==
    IF r.halt THEN r ELSE read_nameChar_pushed(read_nameChar(r), str)

\* The string str with the first character c, and the nameChars after it.
read_name_chars(r, str, c) == RV(read_nameChar_loop(push_byte(r, str, c), str), str)

\* str = push_string(reader, "", 0), pushed by read_prefixName.
read_prefixName_str(p, c) == read_name_chars(p.r, p.v, c)

\* TRY_RET(c = read_nameStartChar(reader, false))
read_prefixName_start(s) ==
    IF s.v = 0 THEN RV(s.r, 0) ELSE read_prefixName_str(push_string(s.r, <<>>), s.v)

\* [33] prefixName ::= ( nameStartChar - '_' ) nameChar*
read_prefixName(r) ==
    IF peek_byte(r) = UNDERSCORE THEN RV(error(r), 0)
    ELSE read_prefixName_start(read_nameStartChar(r, FALSE))

\* if (!c) { if (required) error(...); return 0; }
read_name_start(s, dest, required) ==
    IF s.v = 0 THEN RV(IF required THEN error(s.r) ELSE s.r, 0)
    ELSE read_name_chars(s.r, dest, s.v)

\* [32] name ::= nameStartChar nameChar*
read_name(r, dest, required) == read_name_start(read_nameStartChar(r, required), dest, required)

RECURSIVE read_language_az(_, _, _)
read_language_az(r, str, digits) ==
    LET c == peek_byte(r)
    IN IF ~r.halt /\ c # NUL /\ (in_range(c, LOWER_A, LOWER_Z) \/ (digits /\ is_digit(c)))
       THEN read_language_az(push_eaten(r, str, c), str, digits)
       ELSE r

RECURSIVE read_language_sub(_, _)
read_language_sub(r, str) ==
    IF ~r.halt /\ peek_byte(r) = MINUS
    THEN read_language_sub(read_language_az(push_eaten(r, str, MINUS), str, TRUE), str)
    ELSE r

\* The language tag from its first byte on, into the string p pushed for it.
read_language_str(p, start) ==
    RV(read_language_sub(read_language_az(push_eaten(p.r, p.v, start), p.v, FALSE), p.v),
       p.v)

\* [29] language ::= [a-z]+ ('-' [a-z0-9]+ )*
read_language(r) ==
    IF ~in_range(peek_byte(r), LOWER_A, LOWER_Z) THEN RV(error(r), 0)
    ELSE read_language_str(push_string(r, <<>>), peek_byte(r))

\* eat_byte(reader, '>') returned g.v after the relativeURI str.
read_uriref_end(g, str) == IF g.v # 0 THEN RV(g.r, str) ELSE RV(pop_string(g.r, str), 0)

\* TRY_THROW(str = read_relativeURI(reader))
read_uriref_close(u) ==
    IF u.v = 0 THEN RV(pop_string(u.r, u.v), 0)
    ELSE read_uriref_end(eat_byte(u.r, GREATER), u.v)

\* TRY_RET(eat_byte(reader, '<'))
read_uriref_open(e) == IF e.v = 0 THEN RV(e.r, 0) ELSE read_uriref_close(read_relativeURI(e.r))

\* [28] uriref ::= '<' relativeURI '>'
read_uriref(r) == read_uriref_open(eat_byte(r, LESS))

\* if (!prefix) prefix = push_string(reader, "", 0)
read_qname_prefix(pn) == IF pn.v = 0 THEN push_string(pn.r, <<>>) ELSE pn

\* return str ? str : prefix
read_qname_end(n, prefix) == RV(n.r, IF n.v # 0 THEN n.v ELSE prefix)

\* TRY_THROW(eat_byte(reader, ':')), and the name after it.
read_qname_name(e, prefix) ==
    IF e.v = 0 THEN RV(pop_string(e.r, prefix), 0)
    ELSE read_qname_end(read_name(push_byte(e.r, prefix, COLON), prefix, FALSE), prefix)

read_qname_colon(px) == read_qname_name(eat_byte(px.r, COLON), px.v)

\* [27] qname ::= prefixName? ':' name?
read_qname(r) == read_qname_colon(read_qname_prefix(Lex("read_prefixName", r)))

RECURSIVE read_0_9_loop(_, _)
read_0_9_loop(r, str) ==
    LET c == peek_byte(r)
    IN IF ~r.halt /\ is_digit(c) THEN read_0_9_loop(push_eaten(r, str, c), str) ELSE r

read_0_9(r, str, at_least_one) ==
    LET c == peek_byte(r)
    IN IF at_least_one /\ ~is_digit(c) THEN RV(error(r), FALSE)
       ELSE IF at_least_one THEN RV(read_0_9_loop(push_eaten(r, str, c), str), TRUE)
       ELSE RV(read_0_9_loop(r, str), TRUE)

XSD_DECIMAL == NS_XSD \o Bytes(<<"d", "e", "c", "i", "m", "a", "l">>)
XSD_DOUBLE  == NS_XSD \o Bytes(<<"d", "o", "u", "b", "l", "e">>)
XSD_INTEGER == NS_XSD \o Bytes(<<"i", "n", "t", "e", "g", "e", "r">>)
XSD_BOOLEAN == NS_XSD \o Bytes(<<"b", "o", "o", "l", "e", "a", "n">>)
RDF_FIRST   == NS_RDF \o Bytes(<<"f", "i", "r", "s", "t">>)
RDF_REST    == NS_RDF \o Bytes(<<"r", "e", "s", "t">>)
RDF_NIL     == NS_RDF \o Bytes(<<"n", "i", "l">>)
RDF_TYPE    == NS_RDF \o Bytes(<<"t", "y", "p", "e">>)

\* *dest = make_node(SERD_LITERAL, str) with the datatype dt pushed.
typed_literal(dt, str) ==
    [r |-> dt.r, v |-> TRUE, dest |-> make_node("LITERAL", str), datatype |-> dt.v]

\* if (c == '-' || c == '+') push_byte(reader, str, eat_byte(reader, c))
read_number_sign(r, str) ==
    IF peek_byte(r) \in {MINUS, PLUS} THEN push_eaten(r, str, peek_byte(r)) ELSE r

\* What the last read_0_9 returned (m), and has_decimal.
Mantissa(m, has_decimal) == [v |-> m.v, r |-> m.r, has_decimal |-> has_decimal]

\* all other cases: i is what read_0_9(reader, str, true) returned.
read_number_point(i, str) ==
    IF i.v /\ peek_byte(i.r) = DOT
    THEN Mantissa(read_0_9(push_eaten(i.r, str, DOT), str, FALSE), TRUE)
    ELSE Mantissa(i, FALSE)

\* After the sign: decimal case 2 (e.g. '.0' or `-.0' or `+.0'), or the others.
read_number_digits(r, str) ==
    IF peek_byte(r) = DOT
    THEN Mantissa(read_0_9(push_eaten(r, str, DOT), str, TRUE), TRUE)
    ELSE read_number_point(read_0_9(r, str, TRUE), str)

\* The exponent: 'e' or 'E', a sign, and digits of which read_0_9 reports
\* the lack but whose result is not looked at.
read_number_double(r, str) ==
    read_0_9(read_number_sign(push_eaten(r, str, peek_byte(r)), str), str, TRUE).r

\* A faulty read_number_exponent: a decimal point decides the datatype
\* before the exponent does.
read_number_exponent_decimal(m, str) ==
    IF ~m.v
    THEN [r |-> pop_string(m.r, str), v |-> FALSE,
          dest |-> INTERNAL_NODE_NULL, datatype |-> INTERNAL_NODE_NULL]
    ELSE typed_literal(
             push_uri(IF peek_byte(m.r) \in {LOWER_E, UPPER_E}
                      THEN read_number_double(m.r, str) ELSE m.r,
                      IF m.has_decimal THEN XSD_DECIMAL
                      ELSE IF peek_byte(m.r) \in {LOWER_E, UPPER_E} THEN XSD_DOUBLE
                      ELSE XSD_INTEGER),
             str)

\* The exponent and the datatype after the mantissa m; except: pops
\* datatype->value, which is still 0, and str.
read_number_exponent(m, str) ==
    IF ~m.v
    THEN [r |-> pop_string(m.r, str), v |-> FALSE,
          dest |-> INTERNAL_NODE_NULL, datatype |-> INTERNAL_NODE_NULL]
    ELSE typed_literal(
             push_uri(IF peek_byte(m.r) \in {LOWER_E, UPPER_E}
                      THEN read_number_double(m.r, str) ELSE m.r,
                      IF peek_byte(m.r) \in {LOWER_E, UPPER_E} THEN XSD_DOUBLE
                      ELSE IF m.has_decimal THEN XSD_DECIMAL
                      ELSE XSD_INTEGER),
             str)

\* read_number from the empty string p that it pushed on.
read_number_str(p) ==
    read_number_exponent(read_number_digits(read_number_sign(p.r, p.v), p.v), p.v)

\* [16] integer, [17] double, [18] decimal, [19] exponent
read_number(r) == read_number_str(push_string(r, <<>>))

\* *dest = make_node(type, ref); return (dest->value != 0)
read_resource_end(x, type) == [r |-> x.r, v |-> x.v # 0, dest |-> make_node(type, x.v)]

\* [25] resource ::= uriref | qname
read_resource(r) ==
    IF peek_byte(r) = LESS THEN read_resource_end(Lex("read_uriref", r), "URI")
    ELSE read_resource_end(Lex("read_qname", r), "CURIE")

\* A literal's parts: dest, datatype, lang and the flags of the string q.
Literal(r, v, str, datatype, lang, nf) ==
    [r |-> r, v |-> v,
     dest |-> IF v THEN make_node("LITERAL", str) ELSE INTERNAL_NODE_NULL,
     datatype |-> datatype, lang |-> lang, nf |-> nf]

\* case '^': TRY_THROW(read_resource(reader, datatype))
read_literal_datatype(dt, q) ==
    Literal(IF dt.v THEN dt.r ELSE pop_string(dt.r, q.v), dt.v, q.v, dt.dest, 0, q.nf)

\* case '@': TRY_THROW(*lang = read_language(reader))
read_literal_lang(lg, q) ==
    Literal(IF lg.v # 0 THEN lg.r ELSE pop_string(lg.r, q.v), lg.v # 0, q.v,
            INTERNAL_NODE_NULL, lg.v, q.nf)

\* What follows the quotedString q.
read_literal_suffix(q) ==
    IF q.v = 0 THEN Literal(q.r, FALSE, 0, INTERNAL_NODE_NULL, 0, q.nf)
    ELSE IF peek_byte(q.r) = CARET
    THEN read_literal_datatype(
             Lex("read_resource", eat_byte(eat_byte(q.r, CARET).r, CARET).r), q)
    ELSE IF peek_byte(q.r) = AT
    THEN read_literal_lang(read_language(eat_byte(q.r, AT).r), q)
    ELSE Literal(q.r, TRUE, q.v, INTERNAL_NODE_NULL, 0, q.nf)

\* return read_number(reader, dest, datatype)
no_lang(n) == n @@ [lang |-> 0, nf |-> {}]

\* [14] literal
read_literal(r) ==
    LET c == peek_byte(r)
    IN IF c = MINUS \/ c = PLUS \/ c = DOT \/ is_digit(c)
       THEN no_lang(read_number(r))
       ELSE IF c = QUOTE THEN read_literal_suffix(read_quotedString(r))
       ELSE Literal(error(r), FALSE, 0, INTERNAL_NODE_NULL, 0, {})

\* [12] predicate ::= resource
read_predicate(r) == Lex("read_resource", r)

\* *dest = push_uri(reader, NS_RDF "type", 47)
read_verb_a(u) == [r |-> u.r, v |-> TRUE, dest |-> u.v]

\* p is what peek_string(reader, pre, 2) read.
read_verb_pre(p) ==
    IF Pre(p, 0) = LOWER_A /\ Pre(p, 1) \in {TAB, LF, CR, SP}
    THEN read_verb_a(push_uri(eat_byte(p.r, LOWER_A).r, RDF_TYPE))
    ELSE read_predicate(p.r)

\* [9] verb ::= predicate | 'a'
read_verb(r) == read_verb_pre(peek_string(r, 2))

GENID == Bytes(<<"g", "e", "n", "i", "d">>)
DOCID == Bytes(<<"d", "o", "c", "i", "d">>)

\* Replace "genid" nodes with "docid" to prevent clashing.
read_nodeID_docid(r, ref) ==
    IF r.syntax = "TURTLE" /\ Len(deref(r, ref).buf) >= 5
                           /\ SubSeq(deref(r, ref).buf, 1, 5) = GENID
    THEN [r EXCEPT !.strs[ref].buf = DOCID \o SubSeq(@, 6, Len(@))]
    ELSE r

\* Ghost: read_nodeID returned the identifier x.v it read; r.names keeps,
\* over the reads of the reader, every identifier read from a document.
Named(x) ==
    IF x.r.halt THEN x ELSE RV([x.r EXCEPT !.names = @ \cup {deref(x.r, x.v).buf}], x.v)

\* read_name(reader, ref, true): what it returns is not looked at.
read_nodeID_name(p) == Named(RV(read_nodeID_docid(read_name(p.r, p.v, TRUE).r, p.v), p.v))

\* [26] nodeID ::= '_:' name
read_nodeID(r) ==
    read_nodeID_name(push_string(eat_byte(eat_byte(r, UNDERSCORE).r, COLON).r, <<>>))

\* snprintf(num, sizeof(num), "%u", n)
RECURSIVE Decimal(_)
Decimal(n) == IF n < 10 THEN <<48 + n>> ELSE Append(Decimal(n \div 10), 48 + (n % 10))

\* Ghost: blank_id returned the identifier it minted; r.ids keeps, over the
\* reads of the reader, every identifier with the prefix configured when it
\* was minted.
Minted(x) ==
    IF x.r.halt THEN x
    ELSE RV([x.r EXCEPT !.out = Append(@, [k |-> "blank", id |-> deref(x.r, x.v).buf]),
                        !.ids = Append(@, [id     |-> deref(x.r, x.v).buf,
                                           prefix |-> x.r.bprefix.str])],
            x.v)

\* snprintf(num, sizeof(num), "%u", reader->next_id++) and the two
\* append_string, on the string p that was pushed for the prefix.
blank_id_num(p, n) ==
    RV(append_string(append_string([p.r EXCEPT !.next_id = @ + 1], p.v, GENID),
                     p.v, Decimal(n)),
       p.v)

blank_id(r) ==
    Minted(blank_id_num(push_string(r, IF r.bprefix.set THEN r.bprefix.str ELSE <<>>),
                        r.next_id))

----------------------------------------------------------------------------
(* Grammar.  ctx is the ReadContext (graph, subject, predicate); the word    *)
(* ctx.flags points to is the local of read_statement, kept in r.flags.      *)

\* Ghost: construct fn returned ret and left the arena `exit - entry' bytes
\* larger than it found it.
Exit(r, fn, entry, ret) ==
    IF r.halt THEN r
    ELSE [r EXCEPT !.clog = @ \cup {[fn |-> fn, ret |-> ret, delta |-> r.stack_size - entry]}]

\* The value construct fn returns, with its exit recorded.
Ret(r, fn, entry, ret) == [v |-> ret, r |-> Exit(r, fn, entry, ret)]

\* The sink call made by end_sink, base_sink and prefix_sink.
sink_call(r, ev) ==
    IF r.halt THEN RV(r, FALSE)
    ELSE RV([r EXCEPT !.out = Append(@, ev @@ [refused |-> SinkRefuses(r)])], ~SinkRefuses(r))

with_flags(r, fs) == [r EXCEPT !.flags = @ \cup fs]

without_flags(r, fs) == [r EXCEPT !.flags = @ \ fs]

\* if (ctx.subject) TRY_RET(emit_statement(reader, ctx.flags, ctx.graph,
\*                          ctx.subject, ctx.predicate, dest, NULL, 0, 0))
emit_blank(r, ctx, dest) ==
    IF ctx.subject # NULL_NODE
    THEN emit_statement(r, ctx.graph, ctx.subject, ctx.predicate, dest, NULL_NODE, 0, {})
    ELSE RV(r, TRUE)

\* reader->end_sink(reader->handle, &end)
end_sink(r, dest) == sink_call(r, [k |-> "end", node |-> public_node(r, dest)]).r

\* Ghost: eat_byte returned e.v for the bracket c it was to consume.
Closed(e, c) == IF e.v # 0 THEN Bracket(e.r, c) ELSE e.r

\* What read_blank returns (x.v) and leaves in *dest.
Blank(x, dest) == [v |-> x.v, r |-> x.r, dest |-> dest]

\* case '_'
read_blank_nodeID(id) == Blank(RV(id.r, TRUE), make_node("BLANK", id.v))

\* A faulty read_blank_anon_end: end_sink is not called.
read_blank_anon_end_silent(pl, dest, was_anon_subject) ==
    IF pl.r.halt THEN Blank(RV(pl.r, FALSE), dest)
    ELSE Blank(RV(without_flags(
                      Closed(eat_byte(read_ws_star(pl.r), RBRACKET), RBRACKET),
                      IF was_anon_subject THEN {} ELSE {"ANON_CONT"}),
                  TRUE),
               dest)

\* '[' ws* predicateObjectList ws* ']', from what read_predicateObjectList
\* returned (and nobody looks at) on.
read_blank_anon_end(pl, dest, was_anon_subject) ==
    IF pl.r.halt THEN Blank(RV(pl.r, FALSE), dest)
    ELSE Blank(RV(without_flags(
                      end_sink(Closed(eat_byte(read_ws_star(pl.r), RBRACKET), RBRACKET), dest),
                      IF was_anon_subject THEN {} ELSE {"ANON_CONT"}),
                  TRUE),
               dest)

\* The statement that has the node as its object is emitted (em), and the
\* node becomes the subject: ctx1.subject is *dest.
read_blank_anon_begin(em, ctx1, subject, was_anon_subject) ==
    IF ~em.v THEN Blank(em, ctx1.subject)
    ELSE read_blank_anon_end(
             Call("read_predicateObjectList",
                  with_flags(em.r, IF subject THEN {} ELSE {"ANON_CONT"}), ctx1, TRUE),
             ctx1.subject, was_anon_subject)

\* case '[', from the blank_id b on: '[' ws* ']', or a node with properties.
read_blank_anon(b, ctx, subject, was_anon_subject) ==
    IF peek_byte(b.r) = RBRACKET
    THEN Blank(emit_blank(with_flags(Bracket(eat_byte(b.r, RBRACKET).r, RBRACKET),
                                     {IF subject THEN "EMPTY_S" ELSE "EMPTY_O"}),
                          ctx, make_node("BLANK", b.v)),
               make_node("BLANK", b.v))
    ELSE read_blank_anon_begin(
             emit_blank(with_flags(b.r, {IF subject THEN "ANON_S_BEGIN" ELSE "ANON_O_BEGIN"}),
                        ctx, make_node("BLANK", b.v)),
             [ctx EXCEPT !.subject = make_node("BLANK", b.v)], subject, was_anon_subject)

\* case '(', from what read_collection returned on.
read_blank_collection(col, ctx) ==
    IF ~col.v THEN Blank(col, col.dest)
    ELSE Blank(emit_blank(col.r, ctx, col.dest), col.dest)

\* Spec: [21] blank ::= nodeID | '[]' | '[' predicateObjectList ']' | collection
read_blank(r, ctx, subject) ==
    CASE peek_byte(r) = UNDERSCORE -> read_blank_nodeID(read_nodeID(r))
      [] peek_byte(r) = LBRACKET ->
            read_blank_anon(
                blank_id(read_ws_star(Bracket(eat_byte(r, LBRACKET).r, LBRACKET))),
                ctx, subject, subject /\ (r.flags \cup {"ANON_CONT"}) # {})
      [] peek_byte(r) = LPAREN ->
            read_blank_collection(Call("read_collection", r, ctx, FALSE), ctx)
      [] OTHER -> Blank(RV(error(r), FALSE), INTERNAL_NODE_NULL)

is_object_end(c) == c \in {TAB, LF, CR, SP, NUL, HASH, DOT, SEMICOLON}

TRUE_STR  == Bytes(<<"t", "r", "u", "e">>)
FALSE_STR == Bytes(<<"f", "a", "l", "s", "e">>)

\* memcmp(pre, str, Len(str)) == 0
PreIs(p, str) == \A i \in 1..Len(str) : Pre(p, i - 1) = str[i]

\* A faulty Obj: the datatype handed to the sink is the object itself.
Obj_with_datatype(x) ==
    [v |-> x.v, r |-> x.r, dest |-> x.dest, datatype |-> x.dest, lang |-> 0, nf |-> {}]

\* An object that is no literal: datatype, lang and flags stay as initialised.
Obj(x) == [v |-> x.v, r |-> x.r, dest |-> x.dest, datatype |-> INTERNAL_NODE_NULL,
           lang |-> 0, nf |-> {}]

\* const Ref value = push_string(reader, str, n); datatype = push_uri(...);
\* o = make_node(SERD_LITERAL, value)
read_object_boolean(value) ==
    no_lang(typed_literal(push_uri(value.r, XSD_BOOLEAN), value.v))

\* default: either a boolean literal, or a qname; p is what peek_string read.
read_object_default(p, c) ==
    CASE PreIs(p, TRUE_STR) /\ is_object_end(Pre(p, 4)) ->
            read_object_boolean(push_string(eat_string(p.r, TRUE_STR), TRUE_STR))
      [] PreIs(p, FALSE_STR) /\ is_object_end(Pre(p, 5)) ->
            read_object_boolean(push_string(eat_string(p.r, FALSE_STR), FALSE_STR))
      [] ~is_object_end(c) -> Obj(read_resource_end(Lex("read_qname", p.r), "CURIE"))
      [] OTHER -> Obj([v |-> FALSE, r |-> p.r, dest |-> INTERNAL_NODE_NULL])

\* switch (c): what it leaves in ret, o, datatype, lang and flags.
read_object_node(r, ctx, c) ==
    CASE c \in {LBRACKET, LPAREN, UNDERSCORE} -> Obj(Call("read_blank", r, ctx, FALSE))
      [] c \in {LESS, COLON} -> Obj(Lex("read_resource", r))
      [] c \in {QUOTE, PLUS, MINUS, DOT} \/ is_digit(c) -> read_literal(r)
      [] OTHER -> read_object_default(peek_string(r, 6), c)

\* except: the pops, the assertion on the stack size, and the return.
read_object_except(out, ret, orig_stack_size) ==
    IF out.ndebug \/ out.halt \/ out.stack_size = orig_stack_size
    THEN Ret(out, "read_object", orig_stack_size, ret)
    ELSE RV([out EXCEPT !.halt = TRUE,
                        !.out = Append(@, [k |-> "assert", fn |-> "read_object"])],
            FALSE)

\* if (ret && emit) ret = emit_statement(...), for the node x.
read_object_emit(x, ctx, emit, orig_stack_size) ==
    LET em == IF x.v /\ emit
              THEN emit_statement(x.r, ctx.graph, ctx.subject, ctx.predicate,
                                  x.dest, x.datatype, x.lang, x.nf)
              ELSE RV(x.r, x.v)
    IN read_object_except(
           pop_string(pop_string(pop_string(em.r, x.lang), x.datatype.value), x.dest.value),
           em.v, orig_stack_size)

\* [13] object ::= resource | blank | literal
read_object(r, ctx) ==
    IF peek_byte(r) \in {NUL, RPAREN} THEN RV(r, FALSE)
    ELSE read_object_emit(read_object_node(r, ctx, peek_byte(r)), ctx,
                          ctx.subject # NULL_NODE /\ peek_byte(r) \notin {LBRACKET, LPAREN},
                          r.stack_size)

\* while (peek_byte(reader) == ',') { ... }
RECURSIVE read_objectList_loop(_, _)

\* TRY_RET(read_object(reader, ctx)); read_ws_star(reader), and the loop.
read_objectList_rest(o, ctx) ==
    IF ~o.v THEN RV(o.r, FALSE) ELSE read_objectList_loop(read_ws_star(o.r), ctx)

read_objectList_loop(r, ctx) ==
    IF r.halt \/ peek_byte(r) # COMMA THEN RV(r, TRUE)
    ELSE read_objectList_rest(
             Call("read_object", read_ws_star(eat_byte(r, COMMA).r), ctx, FALSE), ctx)

\* Impl: [8] objectList ::= object ( ws* ',' ws* object )*
read_objectList(r, ctx, blank) ==
    read_objectList_rest(Call("read_object", r, ctx, FALSE), ctx)

\* pop_string(reader, predicate.value) on the way x.
popped(x, predicate) == RV(pop_string(x.r, predicate.value), x.v)

\* TRY_THROW(read_ws_plus(reader)); ctx.predicate = &predicate;
\* TRY_THROW(read_objectList(reader, ctx, blank)); w is what read_ws_plus
\* returned.
read_ws_objectList(w, predicate, ctx, blank) ==
    IF ~w.v THEN popped(w, predicate)
    ELSE popped(Call("read_objectList", w.r, [ctx EXCEPT !.predicate = predicate], blank),
                predicate)

\* verb ws+ objectList from the verb vb that read_verb returned on, with the
\* pop of the predicate that follows on each way out: v tells whether all
\* three were read.
read_verb_objectList(vb, ctx, blank) ==
    IF ~vb.v THEN popped(vb, vb.dest)
    ELSE read_ws_objectList(read_ws_plus(vb.r), vb.dest, ctx, blank)

\* while (peek_byte(reader) == ';') { ... }; predicate.value is 0 on entry.
RECURSIVE read_predicateObjectList_loop(_, _, _)

\* read_ws_star(reader) and the loop, after the verb and objects x.
read_predicateObjectList_rest(x, ctx, blank) ==
    IF ~x.v THEN x ELSE read_predicateObjectList_loop(read_ws_star(x.r), ctx, blank)

read_predicateObjectList_next(r1, ctx, blank) ==
    IF peek_byte(r1) \in {DOT, RBRACKET} THEN RV(r1, TRUE)
    ELSE read_predicateObjectList_rest(read_verb_objectList(Lex("read_verb", r1), ctx, blank),
                                       ctx, blank)

read_predicateObjectList_loop(r, ctx, blank) ==
    IF r.halt \/ peek_byte(r) # SEMICOLON THEN RV(r, TRUE)
    ELSE read_predicateObjectList_next(read_ws_star(eat_byte(r, SEMICOLON).r), ctx, blank)

\* The first verb and its objects; the first TRY is a TRY_RET, which does
\* not pop.
read_predicateObjectList_first(vb, ctx, blank) ==
    IF ~vb.v THEN RV(vb.r, FALSE)
    ELSE read_predicateObjectList_rest(read_verb_objectList(vb, ctx, blank), ctx, blank)

\* Ghost: the exit of read_predicateObjectList with what it returns.
read_predicateObjectList_exit(x, entry) == Ret(x.r, "read_predicateObjectList", entry, x.v)

\* Impl: [7] predicateObjectList ::= verb ws+ objectList
\*                                   (ws* ';' ws* verb ws+ objectList)* (';')?
read_predicateObjectList(r, ctx, blank) ==
    IF r.eof THEN Ret(r, "read_predicateObjectList", r.stack_size, FALSE)
    ELSE read_predicateObjectList_exit(
             read_predicateObjectList_first(Lex("read_verb", r), ctx, blank), r.stack_size)

\* The object o of the cell ctx1.subject, and the cells after it, whose
\* result is not looked at.
read_collection_item_object(o, ctx1) ==
    IF ~o.v THEN RV(pop_string(o.r, ctx1.subject.value), FALSE)
    ELSE RV(pop_string(Call("read_collection_rec", o.r, ctx1, FALSE).r, ctx1.subject.value),
            TRUE)

\* TRY_RET(emit_statement(... ctx.subject, &reader->rdf_rest, &rest ...))
read_collection_item_rest(em, ctx1) ==
    IF ~em.v THEN RV(em.r, FALSE)
    ELSE read_collection_item_object(Call("read_object", em.r, ctx1, FALSE), ctx1)

\* Another item of the collection, from the blank_id b of its cell on.
read_collection_item(b, ctx) ==
    read_collection_item_rest(
        emit_statement(b.r, ctx.graph, ctx.subject, b.r.rdf_rest, make_node("BLANK", b.v),
                       NULL_NODE, 0, {}),
        [ctx EXCEPT !.subject = make_node("BLANK", b.v), !.predicate = b.r.rdf_first])

\* read_collection_rec after its read_ws_star.
read_collection_end(r0, ctx) ==
    IF peek_byte(r0) = RPAREN
    THEN RV(emit_statement(Bracket(eat_byte(r0, RPAREN).r, RPAREN), NULL_NODE,
                           ctx.subject, r0.rdf_rest, r0.rdf_nil, NULL_NODE, 0, {}).r,
            FALSE)
    ELSE read_collection_item(blank_id(r0), ctx)

\* Recursive helper for read_collection.
read_collection_rec(r, ctx) == read_collection_end(read_ws_star(r), ctx)

\* What read_collection returns and leaves in *dest.
Collection(r, entry, ret, dest) ==
    [v |-> ret, r |-> Exit(r, "read_collection", entry, ret), dest |-> dest]

\* const bool ret = read_collection_rec(reader, ctx); return ret
read_collection_first_rec(rec, dest, entry) == Collection(rec.r, entry, rec.v, dest)

\* if (!read_object(reader, ctx)) return error(reader, "unexpected end of
\* collection\n")
read_collection_first_object(o, ctx1, entry) ==
    IF ~o.v THEN Collection(error(o.r), entry, FALSE, ctx1.subject)
    ELSE read_collection_first_rec(Call("read_collection_rec", o.r, ctx1, FALSE),
                                   ctx1.subject, entry)

\* A faulty read_collection_first: the statement that has the list as its
\* object is emitted as soon as the head is minted.
read_collection_first_head(b, ctx, entry) ==
    read_collection_first_object(
        Call("read_object", emit_blank(b.r, ctx, make_node("BLANK", b.v)).r,
             [ctx EXCEPT !.subject = make_node("BLANK", b.v), !.predicate = b.r.rdf_first],
             FALSE),
        [ctx EXCEPT !.subject = make_node("BLANK", b.v), !.predicate = b.r.rdf_first],
        entry)

\* A collection that is not empty, from the blank_id b of its first cell on.
read_collection_first(b, ctx, entry) ==
    read_collection_first_object(
        Call("read_object", b.r,
             [ctx EXCEPT !.subject = make_node("BLANK", b.v), !.predicate = b.r.rdf_first],
             FALSE),
        [ctx EXCEPT !.subject = make_node("BLANK", b.v), !.predicate = b.r.rdf_first],
        entry)

\* A faulty read_collection_items: the first cell is minted before the look
\* for ')', as read_blank does for '['.
read_collection_items_minting(r0, ctx, entry) ==
    IF peek_byte(r0) = RPAREN
    THEN Collection(Bracket(eat_byte(pop_string(blank_id(r0).r, blank_id(r0).v), RPAREN).r,
                            RPAREN),
                    entry, TRUE, r0.rdf_nil)
    ELSE read_collection_first(blank_id(r0), ctx, entry)

\* read_collection after '(' ws*.
read_collection_items(r0, ctx, entry) ==
    IF peek_byte(r0) = RPAREN
    THEN Collection(Bracket(eat_byte(r0, RPAREN).r, RPAREN), entry, TRUE, r0.rdf_nil)
    ELSE read_collection_first(blank_id(r0), ctx, entry)

\* TRY_RET(eat_byte(reader, '('))
read_collection_open(e, ctx, entry) ==
    IF e.v = 0 THEN Collection(e.r, entry, FALSE, INTERNAL_NODE_NULL)
    ELSE read_collection_items(read_ws_star(Opened(Bracket(e.r, LPAREN), ctx)), ctx, entry)

\* [22] itemList ::= object+
\* [23] collection ::= '(' itemList? ')'
read_collection(r, ctx) == read_collection_open(eat_byte(r, LPAREN), ctx, r.stack_size)

\* return subject
Subject(x) == RV(x.r, x.dest)

\* [11] subject ::= resource | blank
read_subject(r, ctx) ==
    IF peek_byte(r) \in {LBRACKET, LPAREN, UNDERSCORE}
    THEN Subject(Call("read_blank", r, ctx, TRUE))
    ELSE Subject(Lex("read_resource", r))

\* ret = read_predicateObjectList(reader, ctx, false); pop_string(reader,
\* subject.value); return ret
read_triples_end(pl, subject, entry) ==
    Ret(pop_string(pl.r, subject.value), "read_triples", entry, pl.v)

\* TRY_RET(read_ws_plus(reader)), and the predicateObjectList of the subject.
read_triples_ws(w, subject, ctx, entry) ==
    IF ~w.v THEN Ret(w.r, "read_triples", entry, FALSE)
    ELSE read_triples_end(
             Call("read_predicateObjectList", w.r, [ctx EXCEPT !.subject = subject], FALSE),
             subject, entry)

\* read_triples from the subject s that read_subject returned on.
read_triples_subject(s, ctx, entry) ==
    IF s.v.value = 0 THEN Ret(s.r, "read_triples", entry, FALSE)
    ELSE read_triples_ws(read_ws_plus(s.r), s.v, ctx, entry)

\* Impl: [6] triples ::= subject ws+ predicateObjectList
read_triples(r, ctx) == read_triples_subject(read_subject(r, ctx), ctx, r.stack_size)

BASE_STR   == Bytes(<<"b", "a", "s", "e">>)
PREFIX_STR == Bytes(<<"p", "r", "e", "f", "i", "x">>)

\* reader->base_sink(reader->handle, &uri_node)
base_sink(r, uri) == sink_call(r, [k |-> "base", uri |-> public_node_from_ref(r, "URI", uri)])

\* TRY_RET(uri = read_uriref(reader)); what base_sink returns is not looked at.
read_base_uri(u) ==
    IF u.v = 0 THEN RV(u.r, FALSE)
    ELSE RV(pop_string(base_sink(u.r, u.v).r, u.v), TRUE)

\* TRY_RET(read_ws_plus(reader))
read_base_ws(w) == IF ~w.v THEN RV(w.r, FALSE) ELSE read_base_uri(Lex("read_uriref", w.r))

\* [5] base ::= '@base' ws+ uriref
read_base(r) == read_base_ws(read_ws_plus(eat_string(r, BASE_STR)))

\* reader->prefix_sink(reader->handle, &name_node, &uri_node)
prefix_sink(r, name, uri) ==
    sink_call(r, [k    |-> "prefix",
                  name |-> public_node_from_ref(r, "LITERAL", name),
                  uri  |-> public_node_from_ref(r, "URI", uri)])

\* ret = !reader->prefix_sink(...); pop_string(reader, uri); except: ...
read_prefixID_end(s, uri, name) == RV(pop_string(pop_string(s.r, uri), name), s.v)

\* TRY_THROW(uri = read_uriref(reader)), with ret still true.
read_prefixID_uri(u, name) ==
    IF u.v = 0 THEN RV(pop_string(u.r, name), TRUE)
    ELSE read_prefixID_end(prefix_sink(u.r, name, u.v), u.v, name)

\* TRY_THROW(eat_byte(reader, ':') == ':'), with ret still true.
read_prefixID_colon(e, name) ==
    IF e.v # COLON THEN RV(pop_string(e.r, name), TRUE)
    ELSE read_prefixID_uri(Lex("read_uriref", read_ws_star(e.r)), name)

read_prefixID_name(px) == read_prefixID_colon(eat_byte(px.r, COLON), px.v)

\* TRY_RET(read_ws_plus(reader))
read_prefixID_ws(w) ==
    IF ~w.v THEN RV(w.r, FALSE)
    ELSE read_prefixID_name(read_qname_prefix(Lex("read_prefixName", w.r)))

\* Impl: [4] prefixID ::= '@prefix' ws+ prefixName? ':' ws* uriref
read_prefixID(r) == read_prefixID_ws(read_ws_plus(eat_string(r, PREFIX_STR)))

\* switch (peek_byte(reader)), after the '@'.
read_directive_at(r1) ==
    CASE peek_byte(r1) = LOWER_B -> read_base(r1)
      [] peek_byte(r1) = LOWER_P -> read_prefixID(r1)
      [] OTHER -> RV(error(r1), FALSE)

\* [3] directive ::= prefixID | base
read_directive(r) == read_directive_at(eat_byte(r, AT).r)

\* return eat_byte(reader, '.')
Truth(d) == RV(d.r, d.v # 0)

\* TRY_RET(x); read_ws_star(reader); return eat_byte(reader, '.')
read_statement_end(x) ==
    IF ~x.v THEN RV(x.r, FALSE) ELSE Truth(eat_byte(read_ws_star(x.r), DOT))

\* read_statement after its read_ws_star.
read_statement_body(r1) ==
    CASE r1.eof -> RV(r1, TRUE)
      [] peek_byte(r1) = AT -> read_statement_end(read_directive(r1))
      [] OTHER -> read_statement_end(
                      Call("read_triples", r1, NO_CONTEXT, FALSE))

\* Impl: [1] statement ::= directive ws* '.' | triples ws* '.' | ws+
read_statement(r) == read_statement_body(read_ws_star([r EXCEPT !.flags = {}]))

Call(fn, r, ctx, b) ==
    CASE fn = "read_prefixName" -> read_prefixName(r)
      [] fn = "read_uriref" -> read_uriref(r)
      [] fn = "read_qname" -> read_qname(r)
      [] fn = "read_resource" -> read_resource(r)
      [] fn = "read_verb" -> read_verb(r)
      [] fn = "read_blank" -> read_blank(r, ctx, b)
      [] fn = "read_object" -> read_object(r, ctx)
      [] fn = "read_objectList" -> read_objectList(r, ctx, b)
      [] fn = "read_predicateObjectList" -> read_predicateObjectList(r, ctx, b)
      [] fn = "read_collection_rec" -> read_collection_rec(r, ctx)
      [] fn = "read_collection" -> read_collection(r, ctx)
      [] fn = "read_triples" -> read_triples(r, ctx)
      [] fn = "read_statement" -> read_statement(r)

\* [1] turtleDoc ::= statement
RECURSIVE read_turtleDoc(_)
read_turtleDoc_next(s) == IF ~s.v THEN RV(s.r, FALSE) ELSE read_turtleDoc(s.r)

read_turtleDoc(r) ==
    IF r.halt \/ r.eof THEN RV(r, ~r.halt) ELSE read_turtleDoc_next(Lex("read_statement", r))

----------------------------------------------------------------------------
(* The public interface.                                                   *)

Syntaxes == {"TURTLE", "NTRIPLES"}

\* The reader as serd_reader_new leaves it.  ndebug tells whether the library
\* was compiled with NDEBUG (assert compiled out).
serd_reader_new(syntax, ndebug) ==
    LET me == [syntax     |-> syntax,
               ndebug     |-> ndebug,
               stack_size |-> SerdStackBottom,
               strs       |-> <<>>,
               cur        |-> [line |-> 0, col |-> 0],
               bprefix    |-> [set |-> FALSE, str |-> <<>>],
               next_id    |-> 1,
               buf        |-> <<>>,
               origin     |-> 0,
               fd         |-> <<>>,
               from_file  |-> FALSE,
               read_head  |-> 0,
               eof        |-> FALSE,
               halt       |-> FALSE,
               hang       |-> FALSE,
               flags      |-> {},
               junk       |-> 0,
               sink       |-> 0,
               out        |-> <<>>,
               clog       |-> {},
               ids        |-> <<>>,
               names      |-> {},
               rdf_first  |-> INTERNAL_NODE_NULL,
               rdf_rest   |-> INTERNAL_NODE_NULL,
               rdf_nil    |-> INTERNAL_NODE_NULL]
        f  == push_string(me, RDF_FIRST)
        s  == push_string(f.r, RDF_REST)
        n  == push_string(s.r, RDF_NIL)
    IN [n.r EXCEPT !.rdf_first = make_node("URI", f.v),
                   !.rdf_rest  = make_node("URI", s.v),
                   !.rdf_nil   = make_node("URI", n.v)]

serd_reader_add_blank_prefix(r, prefix) ==
    [r EXCEPT !.bprefix = IF prefix.set THEN prefix ELSE [set |-> FALSE, str |-> <<>>]]

\* utf8 is the caller's string without its terminator; tail is what the
\* caller's memory holds after the terminator.
\* return ret ? SERD_SUCCESS : SERD_ERR_UNKNOWN
serd_reader_read_string_end(d, entry) ==
    RV(Exit(d.r, "serd_reader_read_string", entry, d.v),
       IF d.v THEN SERD_SUCCESS ELSE SERD_ERR_UNKNOWN)

\* A faulty serd_reader_read_string: each read starts to count the blank
\* nodes from 1 again.
serd_reader_read_string_recount(r, utf8, tail) ==
    serd_reader_read_string_end(
        read_turtleDoc([r EXCEPT !.buf = utf8 \o <<NUL>> \o tail,
                                 !.read_head = 0,
                                 !.cur = [line |-> 1, col |-> 1],
                                 !.from_file = FALSE,
                                 !.origin = 0,
                                 !.eof = FALSE,
                                 !.next_id = 1]),
        r.stack_size)

serd_reader_read_string(r, utf8, tail) ==
    serd_reader_read_string_end(
        read_turtleDoc([r EXCEPT !.buf = utf8 \o <<NUL>> \o tail,
                                 !.read_head = 0,
                                 !.cur = [line |-> 1, col |-> 1],
                                 !.from_file = FALSE,
                                 !.origin = 0,
                                 !.eof = FALSE]),
        r.stack_size)

----------------------------------------------------------------------------
(* The documents the caller reads.                                         *)

MaxTokens == 5
MaxDepth  == 2
MaxRefuse == 6
ShortLen  == 18
MaxNumber == 4
MaxReads  == 2
MaxUri    == 4

\* What the reader is left with after reading doc with sinks that accept
\* everything, from memory that holds nothing after the terminator.
PlainRun(r, doc) == serd_reader_read_string([r EXCEPT !.sink = 0, !.junk = 0], doc, <<>>)

\* The parse of doc looked at every byte of it: a longer document with this
\* beginning can behave differently.
ReadsAll(doc) == PlainRun(serd_reader_new("TURTLE", TRUE), doc).r.read_head >= Len(doc)

\* Brackets opened and not closed.
Nesting(doc) ==
    Cardinality({i \in 1..Len(doc) : doc[i] \in {LBRACKET, LPAREN}})
    - Cardinality({i \in 1..Len(doc) : doc[i] \in {RBRACKET, RPAREN}})

RECURSIVE Grow(_, _, _)
Grow(frontier, tokens, n) ==
    IF n = 0 THEN frontier
    ELSE frontier \cup
         Grow({x \in {d \o t : d \in {y \in frontier : ReadsAll(y)}, t \in tokens} :
                  Nesting(x) <= MaxDepth},
              tokens, n - 1)

Tok(s) == Bytes(s) \o <<SP>>

A == Tok(<<"<", "a", ">">>)

\* Bracket documents: a subject and a verb, then up to MaxTokens of the tokens
\* that open, fill and close anonymous nodes and collections, nested at most
\* MaxDepth deep.
BracketTokens ==
    { A, Tok(<<"[">>) \o A, Tok(<<"]">>), Tok(<<"(">>), Tok(<<")">>), Tok(<<".">>) }

BracketDocs == Grow({A \o A}, BracketTokens, MaxTokens)

\* Node documents: one statement, subject and object drawn from every kind of
\* node the grammar knows, well formed or not.
Subjects ==
    { Bytes(<<"<", "a", ">">>),
      Bytes(<<"<", ">">>),
      Bytes(<<"_", ":", "b">>),
      Bytes(<<"_", ":">>),
      Bytes(<<"_", ":", "g", "e", "n", "i", "d", "1">>),
      Bytes(<<"[", "]">>),
      Bytes(<<"(", ")">>),
      Bytes(<<"[", " ", "<", "a", ">", " ", "<", "a", ">", " ", "]">>),
      Bytes(<<"(", " ", "<", "a", ">", " ", ")">>) }

Objects ==
    { Bytes(<<"<", "a", ">">>),
      Bytes(<<"<", ">">>),
      Bytes(<<"a", ":", "b">>),
      Bytes(<<"_", ":", "b">>),
      Bytes(<<"_", ":">>),
      Bytes(<<"_", ":", "g", "e", "n", "i", "d", "1">>),
      Bytes(<<"\"", "x", "\"">>),
      Bytes(<<"\"", "x", "\"", "@", "e", "n">>),
      Bytes(<<"\"", "x", "\"", "^", "^", "<", "t", ">">>),
      Bytes(<<"1">>),
      Bytes(<<"1", ".", "5">>),
      Bytes(<<"1", "e">>),
      Bytes(<<"1", "e", "2">>),
      Bytes(<<"t", "r", "u", "e">>),
      Bytes(<<"f", "a", "l", "s", "e">>),
      Bytes(<<"[", "]">>),
      Bytes(<<"(", ")">>),
      Bytes(<<"(", " ", ")">>) }

NodeDocs == {sb \o <<SP>> \o A \o ob \o <<SP, DOT>> : sb \in Subjects, ob \in Objects}

\* Directive documents: a directive, well formed or not, and what follows it.
Directives ==
    { Bytes(<<"@", "b", "a", "s", "e", " ", "<", "b", ">", " ", ".">>),
      Bytes(<<"@", "p", "r", "e", "f", "i", "x", " ", "p", ":", " ", "<", "u", ">", " ", ".">>),
      Bytes(<<"@", "p", "r", "e", "f", "i", "x", " ", ":", " ", "<", "u", ">", " ", ".">>),
      Bytes(<<"@", "p", "r", "e", "f", "i", "x", " ", "p", " ", "<", "u", ">", " ", ".">>),
      Bytes(<<"@", "p", "r", "e", "f", "i", "x", " ", "p", ":", " ", ".">>),
      Bytes(<<"@", "b", "a", "s", "e", " ", ".">>),
      Bytes(<<"@", "f", "o", "o", " ", ".">>),
      Bytes(<<"@", "b", "a", "s", "e", " ", "<", "b", ">">>),
      Bytes(<<"@", "b", "a", "s", "e", " ", "<", "b", ">", " ", ".", " ", "@", "p", "r", "e", "f", "i", "x", " ", "p", ":", " ", "<", "u", ">", " ", ".">>) }

Rests ==
    { <<>>,
      Bytes(<<" ", "<", "a", ">", " ", "<", "a", ">", " ", "<", "a", ">", " ", ".">>),
      Bytes(<<" ", "<", "a", ">", " ", "<", "a", ">", " ", "[", " ", "<", "a", ">", " ", "<", "a", ">", " ", "]", " ", ".">>) }

DirectiveDocs == {d \o rest : d \in Directives, rest \in Rests}

\* Boolean documents: `true' or `false' as an object, followed by each byte
\* that can end an object (NUL for the end of the input) or by a byte of a
\* name, in a place where that byte can stand.
ObjectEnds == {TAB, LF, CR, SP, DOT, SEMICOLON, COMMA, HASH, RPAREN, RBRACKET, NUL}

NameBytes == {COLON, LOWER_A}

BooleanPrefix(c) ==
    CASE c = RPAREN -> A \o A \o Tok(<<"(">>) \o A
      [] c = RBRACKET -> A \o A \o Tok(<<"[">>) \o A
      [] OTHER -> A \o A

BooleanSuffix(c) ==
    CASE c = NUL -> <<>>
      [] c = DOT -> <<DOT>>
      [] c = HASH -> <<HASH, LF, DOT>>
      [] c = COMMA -> <<COMMA, SP>> \o TRUE_STR \o <<SP>> \o <<DOT>>
      [] c = SEMICOLON -> <<SEMICOLON, SP>> \o A \o TRUE_STR \o <<SP>> \o <<DOT>>
      [] c = COLON -> <<COLON, LOWER_B, SP, DOT>>
      [] c = LOWER_A -> <<LOWER_A, COLON, LOWER_B, SP, DOT>>
      [] OTHER -> <<c, SP, DOT>>

BooleanDoc(word, c) == BooleanPrefix(c) \o word \o BooleanSuffix(c)

BooleanDocs == {BooleanDoc(word, c) : word \in {TRUE_STR, FALSE_STR}, c \in ObjectEnds \cup NameBytes}

\* Anonymous-node documents: an anonymous object with a nested one that is
\* followed, inside and outside the outer one, by more objects and verbs.
AnonDocs ==
    { A \o A \o Tok(<<"[">>) \o A \o Tok(<<"[">>) \o A \o A \o Tok(<<"]", ",">>) \o A
        \o Tok(<<"]">>) \o <<DOT>>,
      A \o A \o Tok(<<"[">>) \o A \o Tok(<<"[">>) \o A \o A \o Tok(<<"]", ";">>) \o A \o A
        \o Tok(<<"]">>) \o <<DOT>>,
      A \o A \o Tok(<<"[">>) \o A \o A \o Tok(<<";">>) \o A \o A \o Tok(<<"]", ",">>) \o A \o <<DOT>>,
      Tok(<<"[">>) \o A \o Tok(<<"[">>) \o A \o A \o Tok(<<"]", ",">>) \o A \o Tok(<<"]">>)
        \o A \o A \o <<DOT>> }

Docs == BracketDocs \cup NodeDocs \cup DirectiveDocs

\* Documents for a reader with the blank prefix "b": a node named like the
\* identifiers the reader mints, and an anonymous node.
PrefixedDocs ==
    { Bytes(<<"_", ":", "b", "g", "e", "n", "i", "d", "1", " ">>) \o A
        \o Bytes(<<"[", "]", " ", ".">>),
      Bytes(<<"[", "]", " ">>) \o A
        \o Bytes(<<"_", ":", "b", "g", "e", "n", "i", "d", "1", " ", ".">>) }

\* Number documents: one statement whose object is a string of at most
\* MaxNumber of the bytes numbers are written with, a number or not, and the
\* object list of three numbers.
NumberBytes == {DIGIT_0, DOT, LOWER_E, MINUS}

Numbers == UNION {[1..n -> NumberBytes] : n \in 1..MaxNumber}

NumberDoc(n) == A \o A \o n \o <<SP, DOT>>

NumberList == A \o A \o Bytes(<<"1", ",", " ", "+", "1", ".", "0", ",", " ", "1", "E", "0", " ", ".">>)

NumberDocs == {NumberDoc(n) : n \in Numbers} \cup {NumberList}

\* Bytes the caller's memory may hold after the terminator of its string.
Tails == {<<>>, <<DOT>>}

\* Values the uninitialised local of read_hex_escape may hold.
Junks == {0, 65, 2097152}

BlankPrefixes == {[set |-> FALSE, str |-> <<>>], [set |-> TRUE, str |-> Bytes(<<"b">>)]}

Min(a, b) == IF a <= b THEN a ELSE b

----------------------------------------------------------------------------
(* URIs (uri.c).  A SerdRange is a pointer into a string and a length:      *)
(* str is the string it points into, at the position of buf in it (0 for   *)
(* a NULL buf), len the length.  A string ends with a NUL that is not part  *)
(* of the sequence: it is what lies at Len(str) + 1.                        *)

SerdRange(str, at, len) == [str |-> str, at |-> at, len |-> len]

NULL_RANGE == SerdRange(<<>>, 0, 0)

SERD_URI_NULL ==
    [scheme |-> NULL_RANGE, authority |-> NULL_RANGE, path_base |-> NULL_RANGE,
     path |-> NULL_RANGE, query |-> NULL_RANGE, fragment |-> NULL_RANGE]

\* *(utf8 + p - 1)
ByteOf(utf8, p) == IF p >= 1 /\ p <= Len(utf8) THEN utf8[p] ELSE NUL

\* The bytes a range holds.
RangeBytes(range) == SubSeq(range.str, range.at, range.at + range.len - 1)

\* The first position from p on that holds the NUL or one of stops.
RECURSIVE ScanTo(_, _, _)
ScanTo(utf8, p, stops) ==
    IF ByteOf(utf8, p) \in stops \cup {NUL} THEN p ELSE ScanTo(utf8, p + 1, stops)

\* The loop of serd_uri_string_has_scheme from the byte at p on.
RECURSIVE has_scheme_loop(_, _)
has_scheme_loop(utf8, p) ==
    LET c == ByteOf(utf8, p) IN
    IF c = NUL THEN FALSE
    ELSE IF c = COLON THEN TRUE
    ELSE IF c \in {PLUS, MINUS, DOT} THEN has_scheme_loop(utf8, p + 1)
    ELSE IF ~is_alpha(c) /\ ~is_digit(c) THEN FALSE
    ELSE has_scheme_loop(utf8, p + 1)

serd_uri_string_has_scheme(utf8) ==
    IF ~is_alpha(ByteOf(utf8, 1)) THEN FALSE ELSE has_scheme_loop(utf8, 2)

\* fragment: of serd_uri_parse; the range holds the leading '#'.
parse_fragment(utf8, p, u) ==
    IF ByteOf(utf8, p) = HASH
    THEN [u EXCEPT !.fragment = SerdRange(utf8, p, Len(utf8) + 1 - p)]
    ELSE u

\* query: of serd_uri_parse.
parse_query(utf8, p, u) ==
    IF ByteOf(utf8, p) = QUESTION
    THEN LET end == ScanTo(utf8, p + 1, {HASH}) IN
         parse_fragment(utf8, end, [u EXCEPT !.query = SerdRange(utf8, p + 1, end - (p + 1))])
    ELSE parse_fragment(utf8, p, u)

\* path: of serd_uri_parse.
parse_path(utf8, p, u) ==
    LET c == ByteOf(utf8, p) IN
    IF c = QUESTION THEN parse_query(utf8, p, u)
    ELSE IF c = HASH THEN parse_fragment(utf8, p, u)
    ELSE IF c = NUL THEN u
    ELSE LET end == ScanTo(utf8, p, {QUESTION, HASH}) IN
         parse_query(utf8, end, [u EXCEPT !.path = SerdRange(utf8, p, end - p)])

\* maybe_authority: of serd_uri_parse.
parse_maybe_authority(utf8, p, u) ==
    IF ByteOf(utf8, p) = SLASH /\ ByteOf(utf8, p + 1) = SLASH
    THEN LET end == ScanTo(utf8, p + 2, {SLASH, QUESTION, HASH})
             c == ByteOf(utf8, end)
             v == [u EXCEPT !.authority = SerdRange(utf8, p + 2, end - (p + 2))]
         IN  IF c = QUESTION THEN parse_query(utf8, end, v)
             ELSE IF c = HASH THEN parse_fragment(utf8, end, v)
             ELSE parse_path(utf8, end, v)
    ELSE parse_path(utf8, p, u)

\* The scheme loop of serd_uri_parse from the byte at p on: the NUL and the
\* delimiters make the string relative, ':' ends the scheme, and every other
\* byte is passed.
RECURSIVE parse_scheme(_, _, _)
parse_scheme(utf8, p, u) ==
    LET c == ByteOf(utf8, p) IN
    IF c \in {NUL, SLASH, QUESTION, HASH} THEN parse_path(utf8, 1, u)
    ELSE IF c = COLON
    THEN parse_maybe_authority(utf8, p + 1, [u EXCEPT !.scheme = SerdRange(utf8, 1, p - 1)])
    ELSE parse_scheme(utf8, p + 1, u)

serd_uri_parse(utf8) ==
    IF is_alpha(ByteOf(utf8, 1))
    THEN parse_scheme(utf8, 2, SERD_URI_NULL)
    ELSE parse_maybe_authority(utf8, 1, SERD_URI_NULL)

serd_uri_resolve(r, base) ==
    IF r.scheme.len > 0 THEN r
    ELSE LET t == IF r.authority.len > 0
                  THEN [SERD_URI_NULL EXCEPT !.authority = r.authority, !.path = r.path,
                                             !.query = r.query]
                  ELSE IF r.path.len = 0
                  THEN [SERD_URI_NULL EXCEPT !.path = r.path, !.path_base = base.path,
                                             !.query = IF r.query.len > 0 THEN r.query
                                                       ELSE base.query,
                                             !.authority = base.authority]
                  ELSE [SERD_URI_NULL EXCEPT !.path = r.path,
                                             !.path_base = IF ByteOf(r.path.str, r.path.at) # SLASH
                                                           THEN base.path ELSE NULL_RANGE,
                                             !.query = r.query,
                                             !.authority = base.authority]
         IN  [t EXCEPT !.scheme = base.scheme, !.fragment = r.fragment]

\* WRITE_COMPONENT(prefix, field, suffix)
WRITE_COMPONENT(prefix, field, suffix) ==
    IF field.len > 0 THEN prefix \o RangeBytes(field) \o suffix ELSE <<>>

\* The loop of serd_uri_serialise that chops the dot segments a relative
\* path starts with: begin is a position of path.str, end the position after
\* the path, up the number of segments of the base the path leaves.
RECURSIVE chop_dots(_, _, _, _)
chop_dots(str, begin, end, up) ==
    IF begin >= end THEN [begin |-> begin, up |-> up]
    ELSE IF ByteOf(str, begin) = DOT
    THEN IF ByteOf(str, begin + 1) = SLASH THEN chop_dots(str, begin + 2, end, up)
         ELSE IF ByteOf(str, begin + 1) = DOT
         THEN IF ByteOf(str, begin + 2) = SLASH THEN chop_dots(str, begin + 3, end, up + 1)
              ELSE chop_dots(str, begin + 2, end, up + 1)
         ELSE chop_dots(str, begin + 1, end, up)
    ELSE IF ByteOf(str, begin) = SLASH /\ ByteOf(str, begin + 1) = SLASH
    THEN chop_dots(str, begin + 1, end, up)
    ELSE [begin |-> begin, up |-> up]

\* The do-while of serd_uri_serialise that finds the up'th last slash of
\* the base path: base_last is a position of path_base.str, and the loop
\* stops at the first byte of the base path without looking at it.
RECURSIVE find_base_last(_, _, _)
find_base_last(path_base, base_last, up) ==
    LET left == IF ByteOf(path_base.str, base_last) = SLASH THEN up - 1 ELSE up IN
    IF left > 0 /\ base_last - 1 > path_base.at
    THEN find_base_last(path_base, base_last - 1, left)
    ELSE IF left > 0 THEN base_last - 1 ELSE base_last

\* A merge that takes the base path up to its last slash whatever the dot
\* segments of the path say.
merge_paths_one_up(uri) ==
    LET end == uri.path.at + uri.path.len
        chop == chop_dots(uri.path.str, uri.path.at, end, 1)
        base_last == find_base_last(uri.path_base, uri.path_base.at + uri.path_base.len - 1, 1)
    IN  SubSeq(uri.path_base.str, uri.path_base.at, base_last)
            \o SubSeq(uri.path.str, chop.begin, end - 1)

\* The merge of path_base and path in serd_uri_serialise.
merge_paths(uri) ==
    LET end == uri.path.at + uri.path.len
        chop == chop_dots(uri.path.str, uri.path.at, end, 1)
        base_last == find_base_last(uri.path_base, uri.path_base.at + uri.path_base.len - 1,
                                    chop.up)
    IN  SubSeq(uri.path_base.str, uri.path_base.at, base_last)
            \o SubSeq(uri.path.str, chop.begin, end - 1)

\* The bytes serd_uri_serialise hands to its sink, in order.
serd_uri_serialise(uri) ==
    WRITE_COMPONENT(<<>>, uri.scheme, <<COLON>>)
        \o (IF uri.authority.at # 0
            THEN <<SLASH, SLASH>> \o RangeBytes(uri.authority)
            ELSE <<>>)
        \o (IF uri.path_base.len > 0
            THEN IF uri.path.at = 0 /\ (uri.fragment.at # 0 \/ uri.query.at # 0)
                 THEN RangeBytes(uri.path_base)
                 ELSE IF uri.path.at # 0 THEN merge_paths(uri)
                 ELSE <<>>
            ELSE WRITE_COMPONENT(<<>>, uri.path, <<>>))
        \o WRITE_COMPONENT(<<QUESTION>>, uri.query, <<>>)
        \o (IF uri.fragment.at # 0 THEN RangeBytes(uri.fragment) ELSE <<>>)

NoUri ==
    [step |-> "none", utf8 |-> <<>>, base |-> <<>>, has_scheme |-> FALSE,
     r |-> SERD_URI_NULL, b |-> SERD_URI_NULL, t |-> SERD_URI_NULL, out |-> <<>>]

----------------------------------------------------------------------------
(* Reading a stream.  file is what the stream gives, without zero bytes;    *)
(* tail is what the memory after the two pages holds.                       *)

FILE_COLON == Bytes(<<"f", "i", "l", "e", ":">>)

\* !strncmp(str, lit, Len(lit)) for a literal without zero bytes.
StartsWith(str, lit) == Len(str) >= Len(lit) /\ SubSeq(str, 1, Len(lit)) = lit

\* The path of serd_uri_to_path (the build is not one for Windows): null
\* says it is NULL.
serd_uri_to_path(uri) ==
    IF serd_uri_string_has_scheme(uri)
    THEN IF ~StartsWith(uri, FILE_COLON) THEN [null |-> TRUE, path |-> <<>>]
         ELSE IF ~StartsWith(uri, FILE_COLON \o <<SLASH, SLASH>>)
         THEN [null |-> TRUE, path |-> <<>>]
         ELSE [null |-> FALSE, path |-> SubSeq(uri, 8, Len(uri))]
    ELSE [null |-> FALSE, path |-> uri]

RECURSIVE Zeros(_)
Zeros(n) == IF n = 0 THEN <<>> ELSE <<NUL>> \o Zeros(n - 1)

\* return ret ? SERD_SUCCESS : SERD_ERR_UNKNOWN
serd_reader_read_file_handle_end(d, entry) ==
    RV(Exit(d.r, "serd_reader_read_file_handle", entry, d.v),
       IF d.v THEN SERD_SUCCESS ELSE SERD_ERR_UNKNOWN)

\* !page(me) || read_turtleDoc(me)
read_file_handle_doc(p) == IF ~p.v THEN RV(p.r, TRUE) ELSE read_turtleDoc(p.r)

serd_reader_read_file_handle(r, file, tail) ==
    serd_reader_read_file_handle_end(
        read_file_handle_doc(page([r EXCEPT !.fd = file,
                                            !.buf = Zeros(2 * READ_BUF_LEN) \o tail,
                                            !.origin = READ_BUF_LEN,
                                            !.read_head = 0,
                                            !.cur = [line |-> 1, col |-> 1],
                                            !.from_file = TRUE,
                                            !.eof = FALSE])),
        r.stack_size)

\* Ghost: fopen(path, "r") has been called.
Opens(r, path) == [r EXCEPT !.out = Append(@, [k |-> "fopen", path |-> path])]

\* files are the files there are: a function from paths to what they hold.
serd_reader_read_file(r, uri, files, tail) ==
    IF serd_uri_to_path(uri).null THEN RV(r, SERD_ERR_BAD_ARG)
    ELSE IF serd_uri_to_path(uri).path \notin DOMAIN files
    THEN RV(Opens(r, serd_uri_to_path(uri).path), SERD_ERR_UNKNOWN)
    ELSE serd_reader_read_file_handle(Opens(r, serd_uri_to_path(uri).path),
                                      files[serd_uri_to_path(uri).path], tail)

----------------------------------------------------------------------------
(* The state machine: a reader is made, may be given a blank prefix, and    *)
(* reads one string.                                                       *)

\* What the caller knows: whether its call has returned, the bytes read, the
\* status returned and the number of reads made; for the callers that read
\* files, the function called, its argument, what the call the thread is in
\* comes to (run), and the outcome of the read made before with another
\* reader (twin).
\* No call is being made.
NoRun == [v |-> SERD_SUCCESS, r |-> [hang |-> FALSE]]

NoTwin == [api |-> "none", syntax |-> "none", status |-> SERD_SUCCESS, out |-> <<>>]

NoResult ==
    [done |-> FALSE, utf8 |-> <<>>, status |-> SERD_SUCCESS, reads |-> 0,
     api |-> "none", uri |-> <<>>, run |-> NoRun, twin |-> NoTwin]

\* The caller may read another string with the reader: it does so, at most
\* MaxReads times in all, after a read of one of MintDocs that returned.
MintDocs ==
    { Bytes(<<"[", "]", " ">>) \o A \o Bytes(<<"[", "]", " ", ".">>),
      A \o A \o Bytes(<<"[", "]", " ", ".">>),
      A \o A \o Tok(<<"[">>) \o A }

ReadsAgain == result.done /\ ~reader.halt /\ result.reads < MaxReads /\ result.utf8 \in MintDocs

Init ==
    /\ \E syntax \in Syntaxes, ndebug \in BOOLEAN : reader = serd_reader_new(syntax, ndebug)
    /\ result = NoResult
    /\ uri_call = NoUri

AddBlankPrefix(prefix) ==
    /\ ~result.done \/ ReadsAgain
    /\ reader.bprefix # prefix
    /\ reader' = serd_reader_add_blank_prefix(reader, prefix)
    /\ UNCHANGED <<result, uri_call>>

\* The call has returned run.v and left the reader run.r.
Returned(utf8, run) ==
    /\ reader' = run.r
    /\ result' = [result EXCEPT !.done = TRUE, !.utf8 = utf8, !.status = run.v,
                                 !.reads = @ + 1, !.api = "string"]
    /\ UNCHANGED uri_call

\* serd_reader_read_string(reader, utf8), with the environment's part in it:
\* the sink call that is refused (refuse, 0 for none), what lies after the
\* terminator of utf8 (tail) and what the stack held (junk).
ReadString(utf8, refuse, tail, junk) ==
    /\ ~result.done
    /\ Returned(utf8, serd_reader_read_string([reader EXCEPT !.sink = refuse, !.junk = junk],
                                              utf8, tail))

\* Another serd_reader_read_string(reader, utf8) with the same reader; the
\* ghost record of the read starts afresh, the identifiers minted stay.
ReadAgain(utf8) ==
    /\ ReadsAgain
    /\ Returned(utf8, serd_reader_read_string([reader EXCEPT !.sink = 0, !.junk = 0,
                                                             !.out = <<>>, !.clog = {}],
                                              utf8, <<>>))

\* The standard build reading Turtle with no blank prefix reads every
\* document; the other configurations read the short ones.
DocsFor(r) ==
    IF r.syntax = "TURTLE" /\ r.ndebug /\ ~r.bprefix.set
    THEN Docs \cup NumberDocs \cup BooleanDocs \cup AnonDocs
    ELSE {d \in Docs : Len(d) <= ShortLen} \cup IF r.bprefix.set THEN PrefixedDocs ELSE {}

\* The environments in which utf8 is read; plain is the reader after a read
\* of utf8 that no sink refuses: it tells how many sink calls there are to
\* refuse and whether the reader looks past the terminator.
Environments(utf8, plain) ==
    \E refuse \in 0..Min(MaxRefuse, SinkCalls(plain.out)),
       tail \in IF plain.read_head > Len(utf8) THEN Tails ELSE {<<>>},
       junk \in IF BACKSLASH \in {utf8[i] : i \in 1..Len(utf8)} THEN Junks ELSE {0} :
       ReadString(utf8, refuse, tail, junk)

Next ==
    \/ \E prefix \in BlankPrefixes : AddBlankPrefix(prefix)
    \/ \E utf8 \in IF result.done THEN {} ELSE DocsFor(reader) :
          Environments(utf8, PlainRun(reader, utf8).r)
    \/ \E utf8 \in MintDocs : ReadAgain(utf8)

Spec == Init /\ [][Next]_vars

----------------------------------------------------------------------------
(* The URI functions at work: a caller takes a string and a base, asks      *)
(* whether the string has a scheme, parses both, and then either writes     *)
(* the parsed URI out again or resolves it against the base and writes      *)
(* the target.                                                             *)

\* The bytes the strings are made of: a letter, the delimiters and a byte
\* no scheme may hold.
UriBytes == {LOWER_A, COLON, SLASH, QUESTION, HASH, UNDERSCORE}

RECURSIVE UriStringsOf(_)
UriStringsOf(n) ==
    IF n = 0 THEN {<<>>}
    ELSE LET shorter == UriStringsOf(n - 1) IN
         shorter \cup {s \o <<c>> : s \in {x \in shorter : Len(x) = n - 1}, c \in UriBytes}

HTTP_A == Bytes(<<"h", "t", "t", "p", ":", "/", "/", "a">>)

\* The base of RFC 3986 section 5.4 and what it is without its query.
RfcBase == HTTP_A \o Bytes(<<"/", "b", "/", "c", "/", "d", ";", "p", "?", "q">>)

PlainBase == HTTP_A \o Bytes(<<"/", "b", "/", "c", "/", "d", ";", "p">>)

\* The normal examples of RFC 3986 section 5.4.1: a reference and its target.
RfcExamples ==
    { <<Bytes(<<"g", ":", "h">>), Bytes(<<"g", ":", "h">>)>>,
      <<Bytes(<<"g">>), HTTP_A \o Bytes(<<"/", "b", "/", "c", "/", "g">>)>>,
      <<Bytes(<<".", "/", "g">>), HTTP_A \o Bytes(<<"/", "b", "/", "c", "/", "g">>)>>,
      <<Bytes(<<"g", "/">>), HTTP_A \o Bytes(<<"/", "b", "/", "c", "/", "g", "/">>)>>,
      <<Bytes(<<"/", "g">>), HTTP_A \o Bytes(<<"/", "g">>)>>,
      <<Bytes(<<"/", "/", "g">>), Bytes(<<"h", "t", "t", "p", ":", "/", "/", "g">>)>>,
      <<Bytes(<<"?", "y">>), PlainBase \o Bytes(<<"?", "y">>)>>,
      <<Bytes(<<"g", "?", "y">>), HTTP_A \o Bytes(<<"/", "b", "/", "c", "/", "g", "?", "y">>)>>,
      <<Bytes(<<"#", "s">>), RfcBase \o Bytes(<<"#", "s">>)>>,
      <<Bytes(<<"g", "#", "s">>), HTTP_A \o Bytes(<<"/", "b", "/", "c", "/", "g", "#", "s">>)>>,
      <<Bytes(<<"g", "?", "y", "#", "s">>),
        HTTP_A \o Bytes(<<"/", "b", "/", "c", "/", "g", "?", "y", "#", "s">>)>>,
      <<Bytes(<<";", "x">>), HTTP_A \o Bytes(<<"/", "b", "/", "c", "/", ";", "x">>)>>,
      <<Bytes(<<"g", ";", "x">>), HTTP_A \o Bytes(<<"/", "b", "/", "c", "/", "g", ";", "x">>)>>,
      <<Bytes(<<"g", ";", "x", "?", "y", "#", "s">>),
        HTTP_A \o Bytes(<<"/", "b", "/", "c", "/", "g", ";", "x", "?", "y", "#", "s">>)>>,
      <<<<>>, RfcBase>>,
      <<Bytes(<<".">>), HTTP_A \o Bytes(<<"/", "b", "/", "c", "/">>)>>,
      <<Bytes(<<".", "/">>), HTTP_A \o Bytes(<<"/", "b", "/", "c", "/">>)>>,
      <<Bytes(<<".", ".">>), HTTP_A \o Bytes(<<"/", "b", "/">>)>>,
      <<Bytes(<<".", ".", "/">>), HTTP_A \o Bytes(<<"/", "b", "/">>)>>,
      <<Bytes(<<".", ".", "/", "g">>), HTTP_A \o Bytes(<<"/", "b", "/", "g">>)>>,
      <<Bytes(<<".", ".", "/", ".", ".">>), HTTP_A \o Bytes(<<"/">>)>>,
      <<Bytes(<<".", ".", "/", ".", ".", "/">>), HTTP_A \o Bytes(<<"/">>)>>,
      <<Bytes(<<".", ".", "/", ".", ".", "/", "g">>), HTTP_A \o Bytes(<<"/", "g">>)>> }

RfcRefs == {e[1] : e \in RfcExamples}

\* Strings with the other bytes a scheme may hold, and a digit in front.
SchemeStrings ==
    { Bytes(<<"a", "1", "+", "-", ".", ":", "a">>), Bytes(<<"1", "a", ":", "a">>),
      Bytes(<<"A", ":">>), Bytes(<<"a", "1", "+">>) }

UriStrings == UriStringsOf(MaxUri) \cup RfcRefs \cup SchemeStrings

UriBases ==
    { RfcBase, PlainBase, Bytes(<<"a", ":", "/", "/", "a">>), Bytes(<<"a", ":", "a", "?", "a">>) }

UriInit ==
    /\ reader = serd_reader_new("TURTLE", TRUE)
    /\ result = NoResult
    /\ \E utf8 \in UriStrings, base \in UriBases :
          uri_call = [NoUri EXCEPT !.step = "new", !.utf8 = utf8, !.base = base]

\* serd_uri_string_has_scheme(utf8)
StringHasScheme ==
    /\ uri_call.step = "new"
    /\ uri_call' = [uri_call EXCEPT
                        !.step = "tested",
                        !.has_scheme = serd_uri_string_has_scheme(uri_call.utf8)]
    /\ UNCHANGED <<reader, result>>

\* serd_uri_parse(utf8, &r) and serd_uri_parse(base, &b)
Parse ==
    /\ uri_call.step = "tested"
    /\ uri_call' = [uri_call EXCEPT
                        !.step = "parsed",
                        !.r = serd_uri_parse(uri_call.utf8),
                        !.b = serd_uri_parse(uri_call.base)]
    /\ UNCHANGED <<reader, result>>

\* serd_uri_resolve(&r, &b, &t)
Resolve ==
    /\ uri_call.step = "parsed"
    /\ uri_call' = [uri_call EXCEPT
                        !.step = "resolved",
                        !.t = serd_uri_resolve(uri_call.r, uri_call.b)]
    /\ UNCHANGED <<reader, result>>

\* serd_uri_serialise of the parsed URI, or of the target once resolved.
Serialise ==
    /\ uri_call.step \in {"parsed", "resolved"}
    /\ uri_call' = [uri_call EXCEPT
                        !.step = IF uri_call.step = "parsed" THEN "written" ELSE "target",
                        !.out = serd_uri_serialise(IF uri_call.step = "parsed"
                                                   THEN uri_call.r ELSE uri_call.t)]
    /\ UNCHANGED <<reader, result>>

UriNext == StringHasScheme \/ Parse \/ Resolve \/ Serialise

UriSpec == UriInit /\ [][UriNext]_vars

----------------------------------------------------------------------------
(* Callers that read files and streams: a reader of the standard build is   *)
(* made and reads a string, a stream or the file a URI names; the caller    *)
(* may then make a second reader like it and read the same bytes the other  *)
(* way, or in the other syntax.                                            *)

\* Comments at the end of the input and at the end of a page, with an end
\* of line and without.
CommentDocs ==
    { Bytes(<<"#", "x">>),
      Bytes(<<"#", "x">>) \o <<LF>>,
      A \o A \o A \o <<DOT>> \o Bytes(<<"#", "x">>),
      A \o A \o A \o <<DOT, LF>> \o Bytes(<<"#", "x">>),
      A \o A \o A \o <<DOT, LF>> \o Bytes(<<"#", "x">>) \o <<LF>>,
      A \o A \o A \o <<DOT>> \o Bytes(<<"#", "x">>) \o <<LF>> }

\* Documents of N-Triples: one statement of the nodes N-Triples knows.
NtSubjects ==
    { Bytes(<<"<", "a", ">">>), Bytes(<<"_", ":", "b">>),
      Bytes(<<"_", ":", "g", "e", "n", "i", "d", "1">>) }

NtObjects ==
    NtSubjects \cup
    { Bytes(<<"\"", "x", "\"">>), Bytes(<<"\"", "x", "\"", "@", "e", "n">>),
      Bytes(<<"\"", "x", "\"", "^", "^", "<", "t", ">">>) }

NTriplesDocs == {sb \o <<SP>> \o A \o ob \o <<SP, DOT, LF>> : sb \in NtSubjects, ob \in NtObjects}

StreamDocs ==
    {<<>>} \cup {d \in Docs : Len(d) <= ShortLen} \cup CommentDocs \cup NTriplesDocs

\* The URIs serd_reader_read_file is given and the files there are.
FileUris ==
    { Bytes(<<"f">>), Bytes(<<"g">>), Bytes(<<"/", "f">>),
      Bytes(<<"f", "i", "l", "e", ":", "f">>),
      Bytes(<<"f", "i", "l", "e", ":", "/", "f">>),
      Bytes(<<"f", "i", "l", "e", ":", "/", "/", "f">>),
      Bytes(<<"f", "i", "l", "e", ":", "/", "/", "/", "f">>),
      Bytes(<<"f", "i", "l", "e", ":", "/", "/", "g">>),
      Bytes(<<"f", "t", "p", ":", "/", "/", "f">>),
      Bytes(<<"f", "i", "l", "e", "s", ":", "/", "/", "f">>),
      Bytes(<<"f", "i", "l", "e">>),
      Bytes(<<"f", "_", ":", "f">>) }

Files ==
    [path \in {Bytes(<<"f">>), Bytes(<<"/", "f">>), Bytes(<<"f", "_", ":", "f">>)} |->
        A \o A \o A \o <<DOT, LF>>]

FileInit ==
    /\ \E syntax \in Syntaxes : reader = serd_reader_new(syntax, TRUE)
    /\ result = NoResult
    /\ uri_call = NoUri

\* The call has been made and has left the reader run.r; it has returned
\* run.v unless it never returns.
Called(api, uri, utf8, run) ==
    /\ reader' = run.r
    /\ result' = [result EXCEPT !.done = ~run.r.hang, !.utf8 = utf8, !.status = run.v,
                                 !.reads = @ + 1, !.api = api, !.uri = uri]
    /\ UNCHANGED uri_call

\* serd_reader_read_string(reader, utf8)
ReadStringFirst(utf8, refuse, tail) ==
    /\ result.api = "none"
    /\ Called("string", <<>>, utf8,
              serd_reader_read_string([reader EXCEPT !.sink = refuse], utf8, tail))

\* serd_reader_read_file_handle(reader, file, name)
ReadFileHandle(file, refuse, tail) ==
    /\ result.api = "none"
    /\ Called("handle", <<>>, file,
              serd_reader_read_file_handle([reader EXCEPT !.sink = refuse], file, tail))

\* serd_reader_read_file(reader, uri)
ReadFile(uri) ==
    /\ result.api = "none"
    /\ Called("file", uri, <<>>, serd_reader_read_file(reader, uri, Files, <<>>))

\* The outcome of the read that has returned, kept by the caller.
Outcome == [api |-> result.api, syntax |-> reader.syntax, status |-> result.status,
            out |-> reader.out]

\* A second reader like the first, with the same sinks.
Second(syntax) == [serd_reader_new(syntax, TRUE) EXCEPT !.sink = reader.sink]

\* The second call has been made; the caller keeps the outcome of the first.
Twinned(api, run) ==
    /\ reader' = run.r
    /\ result' = [result EXCEPT !.twin = Outcome, !.api = api, !.done = ~run.r.hang,
                                 !.status = run.v, !.reads = @ + 1]
    /\ UNCHANGED uri_call

\* The first call has returned and no second one has been made.
Once(api) == result.done /\ ~reader.halt /\ result.twin = NoTwin /\ result.api = api

\* A second reader reads from a stream the bytes the first read from a
\* string: serd_reader_read_file_handle(second, file, name)
ReadStreamToo(tail) ==
    /\ Once("string")
    /\ Twinned("handle", serd_reader_read_file_handle(Second(reader.syntax), result.utf8, tail))

\* A second reader reads from a string the bytes the first read from a
\* stream: serd_reader_read_string(second, utf8)
ReadStringToo(tail) ==
    /\ Once("handle")
    /\ Twinned("string", serd_reader_read_string(Second(reader.syntax), result.utf8, tail))

\* A second reader reads the string the first read, in the other syntax.
ReadOtherSyntax ==
    /\ Once("string")
    /\ Twinned("string",
               serd_reader_read_string(
                   Second(IF reader.syntax = "TURTLE" THEN "NTRIPLES" ELSE "TURTLE"),
                   result.utf8, <<>>))

FileNext ==
    \/ \E utf8 \in StreamDocs, refuse \in 0..1, tail \in Tails : ReadStringFirst(utf8, refuse, tail)
    \/ \E file \in StreamDocs, refuse \in 0..1, tail \in Tails : ReadFileHandle(file, refuse, tail)
    \/ \E uri \in FileUris : ReadFile(uri)
    \/ \E tail \in Tails : ReadStreamToo(tail)
    \/ \E tail \in Tails : ReadStringToo(tail)
    \/ ReadOtherSyntax

FileSpec == FileInit /\ [][FileNext]_vars

----------------------------------------------------------------------------
(* The same callers, with the call and its return apart: the caller's       *)
(* thread enters serd_reader_read_string or serd_reader_read_file_handle    *)
(* and, if the function comes to its end, leaves it with the status.  The   *)
(* thread runs on as long as there is something for it to do.               *)

\* The thread is in the call.
InCall == result.api # "none" /\ ~result.done

\* The thread enters the call; run is what the call comes to, the status
\* it returns and the reader it leaves, or the reader with which it hangs.
Entered(api, utf8, run) ==
    /\ result.api = "none"
    /\ result' = [result EXCEPT !.api = api, !.utf8 = utf8, !.run = run]
    /\ UNCHANGED <<reader, uri_call>>

\* serd_reader_read_string(reader, utf8) is called.
EnterString(utf8, refuse, tail) ==
    Entered("string", utf8, serd_reader_read_string([reader EXCEPT !.sink = refuse], utf8, tail))

\* serd_reader_read_file_handle(reader, file, name) is called.
EnterFileHandle(file, refuse, tail) ==
    Entered("handle", file,
            serd_reader_read_file_handle([reader EXCEPT !.sink = refuse], file, tail))

\* The call comes to its end, or to the fault that ends the process.
Leave ==
    /\ InCall
    /\ ~result.run.r.hang
    /\ reader' = result.run.r
    /\ result' = [result EXCEPT !.done = TRUE, !.status = result.run.v, !.reads = @ + 1,
                                 !.run = NoRun]
    /\ UNCHANGED uri_call

LiveNext ==
    \/ \E utf8 \in StreamDocs, refuse \in 0..1, tail \in Tails : EnterString(utf8, refuse, tail)
    \/ \E file \in StreamDocs, refuse \in 0..1, tail \in Tails : EnterFileHandle(file, refuse, tail)
    \/ Leave

FileLive == FileInit /\ [][LiveNext]_vars /\ WF_vars(Leave)

----------------------------------------------------------------------------
(***************************************************************************)
(* The read buffer on its own: a read has been started on a string or on   *)
(* a stream, and the grammar's functions look at the input through          *)
(* peek_byte, peek_string and eat_byte, in any order.  result is the        *)
(* record of what they were asked and of the reader they found.             *)
(***************************************************************************)

\* At most MaxMisses calls of eat_byte expect a byte that is not at the head.
MaxMisses == 1

\* The bytes of a source of n bytes: letters that differ from their
\* neighbours, with an end of line in every fifth place.
Source(n) == [i \in 1..n |-> IF i % 5 = 0 THEN LF ELSE 97 + (i % 7)]

\* Sources that end before, at and after the end of a page.
SourceLens == {0, 3, READ_BUF_LEN, READ_BUF_LEN + 2, 2 * READ_BUF_LEN}

Sources == {Source(n) : n \in SourceLens}

\* The values of n in the calls of peek_string.
PeekLens == {2, 3, 4, 6}

\* The reader as serd_reader_read_string hands it to read_turtleDoc.
string_start(r, utf8, tail) ==
    [r EXCEPT !.buf = utf8 \o <<NUL>> \o tail,
              !.read_head = 0,
              !.cur = [line |-> 1, col |-> 1],
              !.from_file = FALSE,
              !.origin = 0,
              !.eof = FALSE]

\* The reader as serd_reader_read_file_handle hands it to read_turtleDoc,
\* the first page read.
file_handle_start(r, file, tail) ==
    page([r EXCEPT !.fd = file,
                   !.buf = Zeros(2 * READ_BUF_LEN) \o tail,
                   !.origin = READ_BUF_LEN,
                   !.read_head = 0,
                   !.cur = [line |-> 1, col |-> 1],
                   !.from_file = TRUE,
                   !.eof = FALSE]).r

\* What a call finds: the head, the cursor and the eof flag.
Found(r) == [head |-> r.read_head, cur |-> r.cur, eof |-> r.eof]

\* No peek_string has been made: n bytes asked for when at bytes of the
\* source had been eaten, pre what it wrote, ok what it returned.
NoPeek == [set |-> FALSE, n |-> 0, at |-> 0, pre |-> <<>>, ok |-> FALSE]

ByteResult(src) ==
    [src |-> src, op |-> "none", expected |-> NUL, c |-> NUL, ret |-> NUL,
     found |-> [head |-> 0, cur |-> [line |-> 0, col |-> 0], eof |-> FALSE],
     eaten |-> <<>>, misses |-> 0, peek |-> NoPeek]

ByteInit ==
    /\ \E src \in Sources, tail \in Tails :
          /\ \/ reader = string_start(serd_reader_new("TURTLE", TRUE), src, tail)
             \/ reader = file_handle_start(serd_reader_new("TURTLE", TRUE), src, tail)
          /\ result = ByteResult(src)
    /\ uri_call = NoUri

\* The process has not come to a fault and the source is not eaten up to
\* the bytes after it.
Reading == ~reader.halt /\ Len(result.eaten) <= Len(result.src) + 1

\* peek_byte(reader)
PeekByte ==
    /\ Reading
    /\ result.op # "peek_byte"
    /\ result' = [result EXCEPT !.op = "peek_byte", !.found = Found(reader),
                                 !.c = peek_byte(reader)]
    /\ UNCHANGED <<reader, uri_call>>

\* peek_string(reader, pre, n)
PeekString(n) ==
    /\ Reading
    /\ reader' = peek_string(reader, n).r
    /\ result' = [result EXCEPT !.op = "peek_string", !.found = Found(reader),
                                 !.peek = [set |-> TRUE, n |-> n, at |-> Len(result.eaten),
                                           pre |-> peek_string(reader, n).pre,
                                           ok |-> peek_string(reader, n).v]]
    /\ UNCHANGED uri_call

\* eat_byte(reader, byte); c is the byte at the head.
EatByte(byte) ==
    /\ Reading
    /\ byte # peek_byte(reader) => result.misses < MaxMisses
    /\ reader' = eat_byte(reader, byte).r
    /\ result' = [result EXCEPT !.op = "eat_byte", !.found = Found(reader),
                                 !.expected = byte, !.c = peek_byte(reader),
                                 !.ret = eat_byte(reader, byte).v,
                                 !.eaten = IF eat_byte(reader, byte).r.halt THEN @
                                           ELSE Append(@, peek_byte(reader)),
                                 !.misses = IF byte = peek_byte(reader) THEN @ ELSE @ + 1]
    /\ UNCHANGED uri_call

\* The byte at the head, the zero byte and a byte no source holds.
ByteNext ==
    \/ PeekByte
    \/ \E n \in PeekLens : PeekString(n)
    \/ \E byte \in {peek_byte(reader), NUL, Ord("x")} : EatByte(byte)

ByteSpec == ByteInit /\ [][ByteNext]_vars

----------------------------------------------------------------------------
(***************************************************************************)
(* One escape: the reader is at the `u' or `U' that follows a backslash,    *)
(* inside a token of which some bytes have been read, and                   *)
(* read_character_escape reads the escape into the token.                   *)
(***************************************************************************)

\* The codepoints written: around the ends of the one-, two-, three- and
\* four-byte ranges, the surrogates, the last of Unicode and the largest
\* value a signed 32-bit integer holds.
Codepoints ==
    (0 .. 144) \cup (2032 .. 2064) \cup (65520 .. 65552) \cup (2097136 .. 2097168)
    \cup {55296, 57343, 1114111, 1114112, 2147483647}

\* The n digits [0-9A-F] of c.
RECURSIVE Hex(_, _)
Hex(c, n) ==
    IF n = 0 THEN <<>>
    ELSE Append(Hex(c \div 16, n - 1), IF c % 16 < 10 THEN 48 + (c % 16) ELSE 55 + (c % 16))

\* What the token holds before the escape.
TokenStarts == {<<>>, <<LOWER_U>>}

\* The reader in a string that goes on with the escape (after the
\* backslash), the token so far pushed.
EscapeStart(escape, token) ==
    push_string(string_start(serd_reader_new("TURTLE", TRUE), escape \o <<QUOTE>>, <<>>),
                token)

EscapeResult(c, u, start) ==
    [c |-> c, u |-> u, dest |-> start.v, token |-> deref(start.r, start.v),
     done |-> FALSE, ret |-> FALSE]

EscapeInit ==
    /\ \E c \in Codepoints, u \in {LOWER_U, UPPER_U}, token \in TokenStarts :
          /\ u = LOWER_U => c < 65536
          /\ reader = EscapeStart(<<u>> \o Hex(c, IF u = LOWER_U THEN 4 ELSE 8), token).r
          /\ result = EscapeResult(c, u,
                          EscapeStart(<<u>> \o Hex(c, IF u = LOWER_U THEN 4 ELSE 8), token))
    /\ uri_call = NoUri

\* read_character_escape(reader, dest)
ReadCharacterEscape ==
    /\ ~result.done
    /\ reader' = read_character_escape(reader, result.dest).r
    /\ result' = [result EXCEPT !.done = TRUE,
                                 !.ret = read_character_escape(reader, result.dest).v]
    /\ UNCHANGED uri_call

EscapeNext == ReadCharacterEscape

EscapeSpec == EscapeInit /\ [][EscapeNext]_vars

----------------------------------------------------------------------------
(* Properties of a read.  They speak of the read that has returned: its     *)
(* status, the events it left in reader.out and the exits in reader.clog.   *)

Out == reader.out

\* The read has returned to its caller (the process did not die in it).
Done == result.done /\ ~reader.halt

Events == 1..Len(Out)

Stmts == {i \in Events : Out[i].k = "stmt"}

IsSinkCall(e) == e.k \in SinkKinds

\* C1: if the statement sink returns non-zero for a statement, also one
\* emitted inside a `[ ... ]' anonymous node or a `( ... )' collection, the
\* statement sink is not called again during that read and the read returns
\* ErrUnknown.
C1_StatementRefusalAborts ==
    Done => \A i \in Stmts :
                Out[i].refused =>
                    /\ \A j \in Stmts : j <= i
                    /\ result.status = SERD_ERR_UNKNOWN

\* C2: if base_sink or prefix_sink returns non-zero for a directive, no
\* further sink is called during that read and the read returns ErrUnknown.
C2_DirectiveRefusalAborts ==
    Done => \A i \in Events :
                (Out[i].k \in {"base", "prefix"} /\ Out[i].refused) =>
                    /\ \A j \in Events : j > i => ~IsSinkCall(Out[j])
                    /\ result.status = SERD_ERR_UNKNOWN

\* C3: once a syntax-error diagnostic has been reported during a read, no
\* sink (statement, base, prefix, end) is called afterwards and the read
\* returns ErrUnknown, never Success.
C3_FirstSyntaxErrorAborts ==
    Done => \A i \in Events :
                Out[i].k = "error" =>
                    /\ \A j \in Events : j > i => ~IsSinkCall(Out[j])
                    /\ result.status = SERD_ERR_UNKNOWN

Constructs ==
    {"read_object", "read_predicateObjectList", "read_triples", "read_collection",
     "serd_reader_read_string"}

\* C4: for every parsed construct (read_object, read_predicateObjectList,
\* read_triples, read_collection, a whole read) the arena size on exit equals
\* the arena size on entry, on success exits and on every error exit.
C4_ArenaBalanced ==
    Done => \A e \in reader.clog : e.fn \in Constructs => e.delta = 0

\* A node that is delivered and whose string is not empty.
NonEmpty(n) == ~n.null /\ n.n_bytes > 0

\* C5: for every call of the statement sink the subject, the predicate and
\* the object are non-empty: the assertion in emit_statement never fails and
\* no node with a null or empty string is delivered, whatever the input.
C5_StatementNodesNonEmpty ==
    result.done =>
        /\ \A i \in Events : Out[i] # [k |-> "assert", fn |-> "emit_statement"]
        /\ \A i \in Stmts : /\ NonEmpty(Out[i].subject)
                             /\ NonEmpty(Out[i].predicate)
                             /\ NonEmpty(Out[i].object)

\* C6: for every call of the statement sink, objectDatatype and objectLang
\* are given only when the object is a literal, and no literal carries both
\* a datatype and a language tag.
C6_DatatypeAndLangOfLiteralsOnly ==
    result.done =>
        \A i \in Stmts :
            /\ (~Out[i].datatype.null \/ ~Out[i].lang.null) => Out[i].object.type = "LITERAL"
            /\ Out[i].datatype.null \/ Out[i].lang.null

\* C6 at work: a literal with a language tag and no datatype has been handed
\* to the statement sink.
C6_Witness ==
    /\ Done
    /\ \E i \in Stmts : /\ Out[i].object.type = "LITERAL"
                         /\ ~Out[i].lang.null
                         /\ Out[i].datatype.null

\* Whether the bracket events of out, read after the brackets in open (the
\* innermost first), close what was opened, in order, and leave nothing open.
RECURSIVE Nested(_, _)
Nested(out, open) ==
    IF out = <<>> THEN open = <<>>
    ELSE IF Head(out).k # "bracket" THEN Nested(Tail(out), open)
    ELSE IF Head(out).c \in {LBRACKET, LPAREN} THEN Nested(Tail(out), <<Head(out).c>> \o open)
    ELSE /\ open # <<>>
         /\ Head(open) = (IF Head(out).c = RBRACKET THEN LBRACKET ELSE LPAREN)
         /\ Nested(Tail(out), Tail(open))

\* C7: in every read that returns Success, each `[' and each `(' consumed as
\* bracket syntax has exactly one matching `]' respectively `)' consumed
\* later, properly nested; an unclosed `[' or `(' never yields Success.
C7_BracketsMatchOnSuccess ==
    (Done /\ result.status = SERD_SUCCESS) => Nested(Out, <<>>)

\* The node the sinks get for the URI or the blank node identifier str.
NodeOf(type, str) ==
    [type |-> type, null |-> FALSE, buf |-> str, n_bytes |-> Len(str), n_chars |-> Len(str)]

IsBracket(e, c) == e.k = "bracket" /\ e.c = c

\* The offset of the first byte of the document at or after offset p that is
\* not whitespace.
RECURSIVE AfterWs(_)
AfterWs(p) ==
    IF p < Len(result.utf8) /\ result.utf8[p + 1] \in {TAB, LF, CR, SP} THEN AfterWs(p + 1) ELSE p

\* Out[i] starts a collection that is the object of a subject and predicate.
ObjectCollection(i) == Out[i].k = "collection" /\ ~Out[i].subject.null

\* An empty one: in the document only whitespace lies between its `(' and
\* a `)'.
EmptyObjectCollection(i) ==
    /\ ObjectCollection(i)
    /\ AfterWs(Out[i].at) < Len(result.utf8)
    /\ result.utf8[AfterWs(Out[i].at) + 1] = RPAREN

\* Event e is the statement (S, P, o) for the S and P of the collection at i.
ListAsObject(i, e, o) ==
    /\ e.k = "stmt"
    /\ e.subject = Out[i].subject
    /\ e.predicate = Out[i].predicate
    /\ e.object = o

\* Event e is an rdf:first or rdf:rest statement.
ListStatement(e) ==
    e.k = "stmt" /\ e.predicate \in {NodeOf("URI", RDF_FIRST), NodeOf("URI", RDF_REST)}

\* C10: an empty collection `()', with optional whitespace between the
\* parentheses, used as the object of (S,P) emits exactly one statement
\* (S,P,rdf:nil), emits no rdf:first or rdf:rest statement and mints no
\* blank node: the `)' is consumed next, with no blank node minted and no
\* statement made before it, the statement follows the `)' at once and is
\* not made twice.
C10_EmptyCollectionIsNil ==
    result.done =>
        \A i \in Events :
            EmptyObjectCollection(i) =>
                /\ i + 2 <= Len(Out)
                /\ IsBracket(Out[i + 1], RPAREN)
                /\ ListAsObject(i, Out[i + 2], NodeOf("URI", RDF_NIL))
                /\ i + 3 <= Len(Out) => Out[i + 3] # Out[i + 2]

\* C10 at work: an empty collection has been read as an object and the read
\* has returned.
C10_Witness ==
    /\ Done
    /\ \E i \in Events : /\ EmptyObjectCollection(i)
                          /\ i + 2 <= Len(Out)
                          /\ ListAsObject(i, Out[i + 2], NodeOf("URI", RDF_NIL))

\* A collection that is not empty: its head is minted right after its start.
NonEmptyObjectCollection(i) ==
    ObjectCollection(i) /\ i < Len(Out) /\ Out[i + 1].k = "blank"

\* The cells that the rdf:rest statements of the read chain to those in cells.
RECURSIVE CellsFrom(_)
CellsFrom(cells) ==
    IF \E j \in Stmts : /\ Out[j].predicate = NodeOf("URI", RDF_REST)
                        /\ Out[j].subject \in cells
                        /\ Out[j].object.type = "BLANK"
                        /\ Out[j].object \notin cells
    THEN CellsFrom(cells \cup {Out[j].object : j \in {m \in Stmts :
                                   /\ Out[m].predicate = NodeOf("URI", RDF_REST)
                                   /\ Out[m].subject \in cells
                                   /\ Out[m].object.type = "BLANK"}})
    ELSE cells

\* The head of the collection at i, and its cells.
HeadOf(i) == NodeOf("BLANK", Out[i + 1].id)

Cells(i) == CellsFrom({HeadOf(i)})

\* Event e is an rdf:first or rdf:rest statement of the collection at i.
CellStatement(i, e) == ListStatement(e) /\ e.subject \in Cells(i)

C9_CollectionsParse ==
    (/\ Done
     /\ \A i \in Events : Out[i].k # "error" /\ (IsSinkCall(Out[i]) => ~Out[i].refused)
     /\ Nested(Out, <<>>)) =>
        /\ \A e \in reader.clog : e.fn = "read_collection" => e.ret
        /\ \A j \in Stmts :
               Out[j].predicate = NodeOf("URI", RDF_REST) =>
                   \E m \in Stmts : /\ m < j
                                    /\ Out[m].subject = Out[j].subject
                                    /\ Out[m].predicate = NodeOf("URI", RDF_FIRST)
        /\ \A i \in Events :
               (i > 1 /\ IsBracket(Out[i], RPAREN) /\ Out[i - 1].k = "stmt") =>
                   /\ i < Len(Out)
                   /\ Out[i + 1].k = "stmt"
                   /\ Out[i + 1].predicate = NodeOf("URI", RDF_REST)
                   /\ Out[i + 1].object = NodeOf("URI", RDF_NIL)

\* The numbers of the grammar ([16] integer, [17] double, [18] decimal,
\* [19] exponent), by their surface form.
ByteAt(s, i) == IF i <= Len(s) THEN s[i] ELSE NUL

RECURSIVE DigitsEnd(_, _)
DigitsEnd(s, i) == IF is_digit(ByteAt(s, i)) THEN DigitsEnd(s, i + 1) ELSE i

SignEnd(s, i) == IF ByteAt(s, i) \in {MINUS, PLUS} THEN i + 1 ELSE i

\* Where the mantissa that starts at i ends; 0 if none starts there.
MantissaEnd(s, i) ==
    IF ByteAt(s, i) = DOT
    THEN IF DigitsEnd(s, i + 1) > i + 1 THEN DigitsEnd(s, i + 1) ELSE 0
    ELSE IF DigitsEnd(s, i) = i THEN 0
    ELSE IF ByteAt(s, DigitsEnd(s, i)) = DOT THEN DigitsEnd(s, DigitsEnd(s, i) + 1)
    ELSE DigitsEnd(s, i)

\* Where the exponent at i ends, i if there is none; 0 if it lacks digits.
ExponentEnd(s, i) ==
    IF ByteAt(s, i) \notin {LOWER_E, UPPER_E} THEN i
    ELSE IF DigitsEnd(s, SignEnd(s, i + 1)) > SignEnd(s, i + 1)
    THEN DigitsEnd(s, SignEnd(s, i + 1))
    ELSE 0

IsNumber(s) ==
    /\ MantissaEnd(s, SignEnd(s, 1)) # 0
    /\ ExponentEnd(s, MantissaEnd(s, SignEnd(s, 1))) = Len(s) + 1

HasPoint(s) == \E i \in 1..Len(s) : s[i] = DOT

HasExponent(s) == \E i \in 1..Len(s) : s[i] \in {LOWER_E, UPPER_E}

NumberDatatype(s) ==
    NodeOf("URI", IF HasExponent(s) THEN XSD_DOUBLE
                  ELSE IF HasPoint(s) THEN XSD_DECIMAL
                  ELSE XSD_INTEGER)

\* Event e is the statement (<a>, <a>, s) with s a number.
NumberStatement(e, s) ==
    /\ e.k = "stmt"
    /\ e.subject = NodeOf("URI", <<LOWER_A>>)
    /\ e.predicate = NodeOf("URI", <<LOWER_A>>)
    /\ e.object = NodeOf("LITERAL", s)
    /\ e.datatype = NumberDatatype(s)
    /\ e.lang.null

\* The object of the number document that was read.
NumberRead == SubSeq(result.utf8, Len(A \o A) + 1, Len(result.utf8) - 2)

\* C11: parsing a numeric literal in object position emits exactly one
\* statement, whose datatype is determined by the surface form alone: no
\* decimal point and no exponent gives xsd:integer, a decimal point and no
\* exponent gives xsd:decimal, an exponent gives xsd:double.  The object
\* list `1, +1.0, 1E0' emits three statements, of these datatypes in order.
C11_NumberDatatypeBySurfaceForm ==
    /\ (result.done /\ result.utf8 \in NumberDocs \ {NumberList} /\ IsNumber(NumberRead)) =>
           /\ Cardinality(Stmts) = 1
           /\ \A j \in Stmts : NumberStatement(Out[j], NumberRead)
    /\ (result.done /\ result.utf8 = NumberList /\ reader.sink = 0) =>
           /\ Cardinality(Stmts) = 3
           /\ \E i, j, k \in Stmts :
                  /\ i < j /\ j < k
                  /\ NumberStatement(Out[i], Bytes(<<"1">>))
                  /\ NumberStatement(Out[j], Bytes(<<"+", "1", ".", "0">>))
                  /\ NumberStatement(Out[k], Bytes(<<"1", "E", "0">>))

\* C11 at work: a number with a decimal point and an exponent has been read
\* as an object and the read has succeeded.
C11_Witness ==
    /\ Done
    /\ result.status = SERD_SUCCESS
    /\ result.utf8 \in NumberDocs \ {NumberList}
    /\ IsNumber(NumberRead) /\ HasPoint(NumberRead) /\ HasExponent(NumberRead)
    /\ \E j \in Stmts : NumberStatement(Out[j], NumberRead)

\* Event e is a statement whose object is the boolean literal word.
BooleanStatement(e, word) ==
    /\ e.k = "stmt"
    /\ e.object = NodeOf("LITERAL", word)
    /\ e.datatype = NodeOf("URI", XSD_BOOLEAN)
    /\ e.lang.null

\* C12: unquoted `true' or `false' in object position immediately followed
\* by any object terminator (whitespace, `.', `;', `,', `#', `)', `]' or the
\* end of the input) is emitted as a literal with datatype xsd:boolean;
\* followed by any other byte it is parsed as a CURIE.
C12_BooleanBeforeObjectEnd ==
    (result.done /\ reader.sink = 0) =>
        \A word \in {TRUE_STR, FALSE_STR} :
            /\ \A c \in ObjectEnds :
                   result.utf8 = BooleanDoc(word, c) =>
                       \E j \in Stmts : BooleanStatement(Out[j], word)
            /\ \A c \in NameBytes :
                   result.utf8 = BooleanDoc(word, c) =>
                       /\ \A j \in Stmts : ~BooleanStatement(Out[j], word)
                       /\ \E j \in Stmts : Out[j].object.type = "CURIE"

\* Node n is the blank node minted at event m.
MintedAt(m, n) == Out[m].k = "blank" /\ n.type = "BLANK" /\ n.buf = Out[m].id

\* Event e is the end_sink call for node n.
EndOf(e, n) == Out[e].k = "end" /\ Out[e].node = n

\* The read met no syntax error and no sink refused a call.
Clean == \A i \in Events : Out[i].k # "error" /\ (IsSinkCall(Out[i]) => ~Out[i].refused)

\* The scope of the anonymous node that is the object of statement b: the
\* node was minted just before b, end_sink is called for it once, right
\* after the `]', every statement about the node lies between the two, and
\* every statement between the two is about the node or about a node minted
\* inside the scope.
AnonScope(b) ==
    /\ b > 1 /\ MintedAt(b - 1, Out[b].object)
    /\ \E e \in Events :
          /\ e > b /\ EndOf(e, Out[b].object)
          /\ \A x \in Events : EndOf(x, Out[b].object) => x = e
          /\ IsBracket(Out[e - 1], RBRACKET)
          /\ \A j \in Stmts : Out[j].subject = Out[b].object => (b < j /\ j < e)
          /\ \A j \in Stmts :
                 (b < j /\ j < e) =>
                     \E m \in Events : m >= b - 1 /\ m < j /\ MintedAt(m, Out[j].subject)

\* C13: for an anonymous node `[ predicateObjectList ]' in object position
\* of (S,P), the sink calls occur in this order: (S,P,fresh) flagged
\* ANON_O_BEGIN, then every statement of the enclosed list with subject
\* fresh, then exactly one end_sink(fresh) call, all before any statement
\* that follows the `]'; `[]' causes no end_sink call.  Stated of the reads
\* of documents without syntax errors in which no sink refuses.
C13_AnonObjectOrder ==
    (Done /\ Clean) =>
        \A b \in Stmts :
            /\ "ANON_O_BEGIN" \in Out[b].flags => AnonScope(b)
            /\ "EMPTY_O" \in Out[b].flags => \A e \in Events : ~EndOf(e, Out[b].object)

\* C13 at work: a read has succeeded in which an anonymous node with a
\* property was an object.
C13_Witness ==
    /\ Done /\ Clean /\ result.status = SERD_SUCCESS
    /\ \E b, j \in Stmts, e \in Events :
           /\ "ANON_O_BEGIN" \in Out[b].flags
           /\ j > b /\ Out[j].subject = Out[b].object
           /\ e > j /\ EndOf(e, Out[b].object)

\* C14: every statement emitted between the ANON_O_BEGIN statement of a
\* `[ ... ]' scope and that scope's end_sink call carries the ANON_CONT
\* flag, statements emitted after a nested `[ ... ]' inside the scope has
\* closed included; ANON_CONT is cleared at `]' only when the scope is not
\* nested in an outer anonymous scope.
C14_AnonContInsideScope ==
    (Done /\ Clean) =>
        \A b, j \in Stmts, e \in Events :
            (/\ "ANON_O_BEGIN" \in Out[b].flags
             /\ EndOf(e, Out[b].object)
             /\ b < j /\ j < e) =>
                "ANON_CONT" \in Out[j].flags

\* C15: every blank-node identifier minted by one reader, over all reads
\* made with it, has the form userPrefix + "genid" + k, where k takes the
\* values 1, 2, 3, ... in mint order and is never reset; hence no two
\* identifiers minted by the same reader are equal.  (The counts of the
\* reads modelled are far from 2^32, where the unsigned next_id wraps.)
C15_MintedIdsCount ==
    /\ \A k \in 1..Len(reader.ids) :
           reader.ids[k].id = reader.ids[k].prefix \o GENID \o Decimal(k)
    /\ \A j, k \in 1..Len(reader.ids) : reader.ids[j].id = reader.ids[k].id => j = k

\* C15 at work: the reader has minted an identifier in a second read, after
\* one in its first read.
C15_Witness ==
    /\ Done /\ result.reads = 2
    /\ Len(reader.ids) >= 2
    /\ \E m \in Events : Out[m].k = "blank" /\ Out[m].id # reader.ids[1].id

\* The identifiers the reader has minted.
MintedIds == {reader.ids[k].id : k \in 1..Len(reader.ids)}

\* C16: in Turtle mode, for any blank-node prefix configured with
\* serd_reader_add_blank_prefix (none included), no named blank node
\* `_:name' of the document is delivered to a sink with an identifier equal
\* to an identifier minted by the same reader.
C16_NamedNodesNeverClash ==
    (result.done /\ reader.syntax = "TURTLE") =>
        \A j \in Stmts :
            \A n \in {Out[j].subject, Out[j].object} :
                (n.type = "BLANK" /\ n.buf \in reader.names) => n.buf \notin MintedIds

----------------------------------------------------------------------------
(* Properties of the URI functions.  They speak of a caller of UriSpec:     *)
(* the string and the base it took, what serd_uri_parse made of them, the   *)
(* target serd_uri_resolve gave and the bytes serd_uri_serialise wrote.     *)

\* The parsed URI has been written out again, unresolved.
Written == uri_call.step = "written"

\* C17: for every string s, the bytes serd_uri_serialise writes for the
\* result of serd_uri_parse(s) are the bytes of s, a string with an empty
\* query ("a?") or an empty authority ("//") included.
C17_SerialiseInvertsParse == Written => uri_call.out = uri_call.utf8

\* The reference has been resolved against the base and the target written.
Resolved == uri_call.step = "target"

\* C18: for the base http://a/b/c/d;p?q and every reference of the normal
\* examples of RFC 3986 (section 5.4.1), parsing both, resolving the
\* reference against the base and serialising the target writes the target
\* the RFC lists; "../../g" gives http://a/g.
C18_RfcNormalExamples ==
    (Resolved /\ uri_call.base = RfcBase) =>
        \A e \in RfcExamples : uri_call.utf8 = e[1] => uri_call.out = e[2]

\* C18 at work: "../../g" has been resolved against the base of the RFC,
\* its two ".." have taken two segments off the base path, and the target
\* written is http://a/g.
C18_Witness ==
    /\ Resolved /\ uri_call.base = RfcBase
    /\ uri_call.utf8 = Bytes(<<".", ".", "/", ".", ".", "/", "g">>)
    /\ uri_call.t.path_base = uri_call.b.path
    /\ uri_call.out = HTTP_A \o Bytes(<<"/", "g">>)

\* The reference has no scheme, no authority and an empty path: it is
\* empty, or a query, a fragment or both.
SameDocumentOrQuery ==
    uri_call.r.scheme.at = 0 /\ uri_call.r.authority.at = 0 /\ uri_call.r.path.len = 0

\* The query of the target of such a reference: the reference's if it has
\* one, else the base's.
TargetQuery == IF uri_call.r.query.at # 0 THEN uri_call.r.query ELSE uri_call.b.query

\* Scheme, authority and path of the base as they stand in the base, then
\* the query of the target, then the fragment of the reference.
SameDocumentTarget ==
    RangeBytes(uri_call.b.scheme) \o (IF uri_call.b.scheme.at # 0 THEN <<COLON>> ELSE <<>>)
        \o (IF uri_call.b.authority.at # 0
            THEN <<SLASH, SLASH>> \o RangeBytes(uri_call.b.authority) ELSE <<>>)
        \o RangeBytes(uri_call.b.path)
        \o (IF TargetQuery.at # 0 THEN <<QUESTION>> \o RangeBytes(TargetQuery) ELSE <<>>)
        \o RangeBytes(uri_call.r.fragment)

\* C19: for every base B and every reference R with no scheme, no
\* authority and an empty path (the empty reference and bases without a
\* query included), the target written consists of B.scheme, B.authority
\* and B.path unchanged, then R.query if R has one, else B.query, then
\* R.fragment.
C19_EmptyPathKeepsBasePath ==
    (Resolved /\ SameDocumentOrQuery) => uri_call.out = SameDocumentTarget

\* serd_uri_parse has been applied to the string.
Parsed == uri_call.step \notin {"none", "new", "tested"}

\* C20: serd_uri_parse reports a scheme for a string exactly when
\* serd_uri_string_has_scheme is true of it, that is when the string starts
\* with an ALPHA followed by ALPHA, DIGIT, '+', '-' or '.' bytes and then a
\* ':'; any other byte before the first ':' makes the string relative, and
\* its path then starts at its first byte.
C20_SchemeIffHasScheme ==
    Parsed =>
        /\ uri_call.r.scheme.at # 0 <=> uri_call.has_scheme
        /\ (~uri_call.has_scheme /\ uri_call.r.path.at # 0 /\ uri_call.r.authority.at = 0)
               => uri_call.r.path.at = 1

----------------------------------------------------------------------------
(* Properties of the callers that read files and streams (FileSpec).        *)

\* scheme ::= ALPHA *( ALPHA / DIGIT / "+" / "-" / "." ), then ':'
SchemeChar(c) == is_alpha(c) \/ is_digit(c) \/ c \in {PLUS, MINUS, DOT}

StartsWithScheme(str) ==
    \E k \in 2..Len(str) :
        /\ str[k] = COLON /\ is_alpha(str[1])
        /\ \A j \in 2..(k - 1) : SchemeChar(str[j])

\* The path the claim gives a URI; <<-1>> for a URI that has none.
PathOfUri(uri) ==
    IF ~StartsWithScheme(uri) THEN uri
    ELSE IF StartsWith(uri, FILE_COLON \o <<SLASH, SLASH>>) THEN SubSeq(uri, 8, Len(uri))
    ELSE IF StartsWith(uri, FILE_COLON) THEN SubSeq(uri, 6, Len(uri))
    ELSE <<-1>>

\* The paths fopen has been called with.
PathsOpened == {Out[i].path : i \in {j \in Events : Out[j].k = "fopen"}}

\* serd_reader_read_file has been called and has returned.
FileRead == result.done /\ result.api = "file"

\* C21: serd_reader_read_file uses a string without a scheme as the path,
\* accepts `file:PATH' and `file://PATH' and strips that prefix, and for an
\* argument with any other scheme returns SERD_ERR_BAD_ARG without opening
\* a file or calling a sink.
C21_ReadFilePath ==
    FileRead =>
        IF PathOfUri(result.uri) = <<-1>>
        THEN result.status = SERD_ERR_BAD_ARG /\ Out = <<>>
        ELSE PathsOpened = {PathOfUri(result.uri)}

\* The statement-sink calls of a sequence of events: what each call was
\* given.
RECURSIVE StatementsOf(_)
StatementsOf(out) ==
    IF out = <<>> THEN <<>>
    ELSE IF Head(out).k = "stmt"
    THEN <<[x \in {"subject", "predicate", "object", "datatype", "lang", "flags"} |->
               Head(out)[x]]>> \o StatementsOf(Tail(out))
    ELSE StatementsOf(Tail(out))

\* The same string has been read in both syntaxes, by two readers whose
\* sinks refuse nothing.
BothSyntaxes ==
    /\ result.done /\ result.api = "string" /\ result.twin.api = "string"
    /\ result.twin.syntax # reader.syntax /\ reader.sink = 0

\* C22: for every valid N-Triples document, a read in Turtle mode and a
\* read in N-Triples mode make the same sequence of statement-sink calls,
\* with the same bytes in every node, documents with blank nodes named
\* `_:genid...' included.
C22_TurtleReadsNTriplesAlike ==
    (BothSyntaxes /\ result.utf8 \in NTriplesDocs /\ result.status = SERD_SUCCESS) =>
        /\ result.twin.status = SERD_SUCCESS
        /\ StatementsOf(Out) = StatementsOf(result.twin.out)

\* A call to read has been made.
ReadCalled == result.api # "none"

\* C23: for every finite input, read from a stream or from a string, the
\* call eventually returns a status; so it does when the input ends inside
\* a comment that no end of line closes.  (The thread leaves the call: the
\* formula asks no more, and lets the fault that ends the process pass.)
C23_ReadReturns == ReadCalled ~> result.done

\* The sink calls of a sequence of events, in order.
RECURSIVE SinkCallsOf(_)
SinkCallsOf(out) ==
    IF out = <<>> THEN <<>>
    ELSE IF IsSinkCall(Head(out)) THEN <<Head(out)>> \o SinkCallsOf(Tail(out))
    ELSE SinkCallsOf(Tail(out))

\* The same bytes have been read from a string and from a stream, by two
\* readers of the same syntax with the same sinks, and both calls have
\* returned.
BothWays ==
    /\ Done /\ result.twin.api \in {"string", "handle"} /\ result.twin.api # result.api
    /\ result.twin.syntax = reader.syntax

\* C29: for the same bytes (no zero byte among them), serd_reader_read_string
\* and serd_reader_read_file_handle return the same status and make the same
\* sequence of sink calls; for the empty input both return SERD_SUCCESS and
\* call no sink.
C29_StringAndStreamAlike ==
    BothWays =>
        /\ result.status = result.twin.status
        /\ SinkCallsOf(Out) = SinkCallsOf(result.twin.out)
        /\ result.utf8 = <<>> => result.status = SERD_SUCCESS /\ SinkCallsOf(Out) = <<>>

----------------------------------------------------------------------------
(***************************************************************************)
(* Properties of the read buffer (ByteSpec).  They speak of the last call   *)
(* of peek_byte, peek_string or eat_byte: what it found and what it left.   *)
(***************************************************************************)

\* The calls of eat_byte made since the last peek_string.
SincePeek == Len(result.eaten) - result.peek.at

\* A peek_string on a stream has been followed by calls of eat_byte, and
\* no eat_byte so far expected a byte that was not at the head.
PeekedThenEaten ==
    /\ reader.from_file
    /\ result.peek.set
    /\ result.misses = 0
    /\ SincePeek > 0

\* C24: after peek_string(pre, n) on a stream, for every i < n at which the
\* source holds a byte, the i-th eat_byte that follows consumes that byte of
\* the source, and it is pre[i]; no byte peeked is lost, whether the peek
\* goes over the end of a page or the source ends at the end of the page.
C24_PeekedBytesAreEaten ==
    PeekedThenEaten =>
        \A i \in 1..Min(SincePeek, result.peek.n) :
            result.peek.at + i <= Len(result.src) =>
                /\ result.eaten[result.peek.at + i] = result.src[result.peek.at + i]
                /\ i <= Len(result.peek.pre)
                /\ result.eaten[result.peek.at + i] = result.peek.pre[i]

\* The last call was an eat_byte that expected another byte than the one
\* at the head.
Missed == result.op = "eat_byte" /\ result.c # result.expected

\* C25: an eat_byte that expects another byte than the one at the head
\* fails and leaves the head, the line and the column as they were.
C25_MismatchLeavesHead ==
    Missed =>
        /\ result.ret = 0
        /\ reader.read_head = result.found.head
        /\ reader.cur = result.found.cur

\* C26: once eof is set, every eat_byte fails, whatever byte it expects,
\* the zero byte as well, and the head does not go past the zero byte that
\* ends the input.
C26_EofStopsEating ==
    (result.op = "eat_byte" /\ result.found.eof) =>
        /\ result.ret = 0
        /\ reader.read_head = result.found.head

RECURSIVE Newlines(_)
Newlines(bytes) ==
    IF bytes = <<>> THEN 0
    ELSE (IF Head(bytes) = LF THEN 1 ELSE 0) + Newlines(Tail(bytes))

\* The bytes eaten since the last end of line.
RECURSIVE SinceNewline(_)
SinceNewline(bytes) ==
    IF bytes = <<>> \/ bytes[Len(bytes)] = LF THEN 0
    ELSE 1 + SinceNewline(SubSeq(bytes, 1, Len(bytes) - 1))

\* C27: at every point of a read the line of the cursor is 1 plus the
\* number of ends of line eaten, and its column is the number of bytes
\* eaten since the last of them: 0 at the start and after an end of line.
C27_CursorCountsFromZero ==
    ~reader.halt =>
        /\ reader.cur.line = 1 + Newlines(result.eaten)
        /\ reader.cur.col = SinceNewline(result.eaten)

\* C30: on a stream, whenever a byte is peeked or eaten the head is in the
\* two pages and below the end of the page, -READ_BUF_LEN <= head <
\* READ_BUF_LEN, also after an eat_byte that failed.
C30_HeadBelowPageEnd ==
    (reader.from_file /\ result.op # "none") =>
        /\ 0 - READ_BUF_LEN <= result.found.head
        /\ result.found.head < READ_BUF_LEN

----------------------------------------------------------------------------
(***************************************************************************)
(* Properties of an escape (EscapeSpec).                                    *)
(***************************************************************************)

\* UTF-8 as the standard defines it: the bits of c laid out in one to four
\* bytes.
Utf8(c) ==
    IF c < 128 THEN <<c>>
    ELSE IF c < 2048 THEN <<192 + (c \div 64), 128 + (c % 64)>>
    ELSE IF c < 65536
    THEN <<224 + (c \div 4096), 128 + ((c \div 64) % 64), 128 + (c % 64)>>
    ELSE <<240 + (c \div 262144), 128 + ((c \div 4096) % 64),
           128 + ((c \div 64) % 64), 128 + (c % 64)>>

\* The token after the escape has been read.
Token == deref(reader, result.dest)

\* C28: an escape \uXXXX or \UXXXXXXXX of a codepoint c below 0x200000
\* appends the UTF-8 encoding of c to the token, 1 byte if c < 0x80, 2 if
\* c < 0x800, 3 if c < 0x10000 and 4 otherwise, and adds 1 to the token's
\* count of characters; from 0x200000 on the escape fails and appends
\* nothing.
C28_EscapeAppendsUtf8 ==
    result.done =>
        IF result.c < 2097152
        THEN /\ result.ret
             /\ Token.buf = result.token.buf \o Utf8(result.c)
             /\ Token.n_bytes = result.token.n_bytes + Len(Utf8(result.c))
             /\ Token.n_chars = result.token.n_chars + 1
        ELSE /\ ~result.ret
             /\ Token = result.token

\* A codepoint of four bytes has been read from \U into a token that held
\* a byte.
C28_Witness ==
    /\ result.done
    /\ result.u = UPPER_U
    /\ result.c >= 65536
    /\ result.c < 2097152
    /\ result.token.n_bytes = 1
    /\ Token.n_bytes = 5

====
